---------------------------- MODULE Spec2Model ----------------------------
(***************************************************************************)
(* Ingestion and consistency core of bse_automation.                       *)
(*                                                                         *)
(*   core/db_handler.py             the live-run store (DBHandler)         *)
(*   core/historical_db_handler.py  the historical store (lookup, update)  *)
(*   init_historical_db.py          the historical store's schema          *)
(*   core/scraper.py                the poll cycle (BSEScraper.run)        *)
(*   historical_backfill.py         the backfill worker pool and throttle  *)
(*                                                                         *)
(* Each entry point is a specification of its own over the same variables: *)
(*   SpecLive      poll cycles of BSEScraper.run, one after another        *)
(*   SpecPool      the backfill pool: dispatcher (main) and its workers    *)
(*   SpecPoolFair  SpecPool under the event loop's fair scheduling         *)
(*   SpecPrograms  either program: the live scraper or the backfill        *)
(*   SpecInsert    threads racing on INSERT into the two stores            *)
(*   SpecLookup    the historical store filled row by row, and looked up   *)
(*   SpecJit       two programs in the lookup's JIT step at once           *)
(*   SpecNotify    the notification sequencer over one cycle's actions     *)
(*   SpecPoolErr   SpecPool with requests and writes that raise            *)
(*   SpecRetry     one call of a request helper with its retries           *)
(*   SpecRerun     poll cycles against services that do not change         *)
(*   SpecResume    poll cycles over what an interrupted cycle left         *)
(*   SpecRepoll    SpecRerun's polls with a cap, repeated for ever         *)
(*   SpecNotifying main.py: polls, the delivery of their lists, and kills  *)
(*   SpecCompare   lookups of one historical entry, payloads in full       *)
(***************************************************************************)
EXTENDS Integers, Sequences, FiniteSets, TLC

(***************************************************************************)
(* Bounds of the model.                                                    *)
(***************************************************************************)
\* rows SpecLookup stores in the historical store
MaxHistRows == 3

\* chunks (periods) one backfill run walks through
MaxChunks == 2

\* poll cycles of the live scraper, one after another
MaxPolls == 2

\* announcements in one candidate list
MaxAnnouncements == 2

\* the largest MAX_ITEMS_TO_PROCESS the model configures (0: no cap)
MaxItemsCap == 1

\* delivery actions one cycle hands to the notification sequencer
MaxTasks == 3

\* the largest `retries` a request helper is called with, its default aside
MaxRetries == 3

\* comparison lookups of one historical entry
MaxLookups == 4

(***************************************************************************)
(* Program constants.                                                      *)
(***************************************************************************)
\* historical_backfill.py: MAX_CONCURRENT_WORKERS = 3
MAX_CONCURRENT_WORKERS == 3

\* historical_backfill.py, fetch_pdf_url_async: for attempt in range(5)
FETCH_ATTEMPTS == 5

\* the defaults of _make_resilient_request and of _make_api_request
RESILIENT_RETRIES == 5
RESILIENT_BACKOFF == 2
API_RETRIES == 3
API_BACKOFF == 5

(***************************************************************************)
(* Values.                                                                 *)
(***************************************************************************)
\* the absent value (Python's None, SQL NULL)
None == "None"

\* NEWSIDs
NewsIds == {"h1", "h2", "h3"}

\* SCRIP_CD values (entities)
Scrips == {"E1", "E2"}

\* dissemination days (ordinal numbers of calendar days); 9 and 10 differ
\* in their number of digits, 10 and 11 only in the last one
Days == {2, 9, 10, 11}

\* the attachment URL the upstream service publishes for a NEWSID
AttachmentURL(id) == CASE id = "h1" -> "u1" [] id = "h2" -> "u2" [] OTHER -> "u3"

Min(a, b) == IF a <= b THEN a ELSE b

(***************************************************************************)
(* Dates as the stores hold them: TEXT.  strftime("%Y-%m-%d") writes each  *)
(* field zero-padded to a fixed width; the model's dates have one field of *)
(* two decimal digits.  SQLite compares TEXT bytewise, left to right, a    *)
(* proper prefix being the smaller.                                        *)
(***************************************************************************)
strftime(d) == <<d \div 10, d % 10>>

\* the day a date text denotes (its decimal value)
DayOf(t) == IF Len(t) = 1 THEN t[1] ELSE 10 * t[1] + t[2]

TextLess(a, b) ==
    \E k \in 1..(Min(Len(a), Len(b)) + 1) :
        /\ \A j \in 1..(k - 1) : a[j] = b[j]
        /\ \/ k <= Len(a) /\ k <= Len(b) /\ a[k] < b[k]
           \/ k = Len(a) + 1 /\ k <= Len(b)

(***************************************************************************)
(* The historical store: table announcements of historical_announcements.db*)
(* as the sequence of its rows in insertion (rowid) order.                 *)
(***************************************************************************)
HistRow(id, scrip, date, url) ==
    [news_id |-> id, scrip_code |-> scrip, announcement_date |-> date,
     pdf_url |-> url, summary_json |-> None]

\* news_id TEXT PRIMARY KEY, pdf_url TEXT NOT NULL UNIQUE
HistIntegrityError(h, row) ==
    \E i \in 1..Len(h) :
        h[i].news_id = row.news_id \/ h[i].pdf_url = row.pdf_url

\* the INSERT without the uniqueness constraints
HistInsertUnchecked(h, row) == Append(h, row)

\* INSERT INTO announcements ...; an IntegrityError leaves the table as it is
HistInsert(h, row) == IF HistIntegrityError(h, row) THEN h ELSE Append(h, row)

\* the rows the WHERE clause keeps
HistCandidates(h, scrip, before) ==
    {i \in 1..Len(h) :
        h[i].scrip_code = scrip /\ TextLess(h[i].announcement_date, before)}

\* the query with ORDER BY announcement_date ASC
get_oldest_announcement_for_scrip(h, scrip, before) ==
    {i \in HistCandidates(h, scrip, before) :
        \A j \in HistCandidates(h, scrip, before) :
            ~TextLess(h[j].announcement_date, h[i].announcement_date)}

\* SELECT ... WHERE scrip_code = ? AND announcement_date < ?
\* ORDER BY announcement_date DESC LIMIT 1: the rows the query may return
\* (no row: None); the ORDER BY does not order rows of equal date
get_latest_announcement_for_scrip(h, scrip, before) ==
    {i \in HistCandidates(h, scrip, before) :
        \A j \in HistCandidates(h, scrip, before) :
            ~TextLess(h[i].announcement_date, h[j].announcement_date)}

\* the announcement the upstream lists under a NEWSID
ScripOf(id) == IF id = "h3" THEN "E2" ELSE "E1"
DissemDT(id) == CASE id = "h1" -> <<9>> [] id = "h2" -> <<10>> [] OTHER -> <<11>>
UpstreamItem(id) ==
    [NEWSID |-> id, SCRIP_CD |-> ScripOf(id), DissemDT |-> DissemDT(id)]

\* DissemDT as the upstream sends it: <<d>>, an ISO timestamp of day d, or
\* <<>>, a text datetime.fromisoformat rejects (ValueError, TypeError)
InvalidDate == <<>>

\* save_to_db_threaded(db_path, item, pdf_url): no insert for a date that
\* does not parse, else the INSERT, its IntegrityError swallowed
save_to_db_threaded(h, item, pdf_url) ==
    IF item.DissemDT = InvalidDate
    THEN h
    ELSE HistInsert(h, HistRow(item.NEWSID, item.SCRIP_CD,
                               strftime(item.DissemDT[1]), pdf_url))

(***************************************************************************)
(* The live-run store: table announcements of database.db, as the sequence *)
(* of its rows.  summary_json holds the payload's "type", or None.         *)
(***************************************************************************)
LiveRow(id) == [news_id |-> id, status |-> "DOWNLOADED", summary_json |-> None]

\* a lookup in a column that never matches
is_never_processed(d, id) == FALSE

\* DBHandler.is_processed: SELECT 1 FROM announcements WHERE news_id = ?
is_processed(d, id) == \E i \in 1..Len(d) : d[i].news_id = id

\* the query without its status condition
needs_summarization_any_status(d, id) == \E i \in 1..Len(d) : d[i].news_id = id

\* DBHandler.needs_summarization: ... WHERE news_id = ? AND status = 'DOWNLOADED'
needs_summarization(d, id) ==
    \E i \in 1..Len(d) : d[i].news_id = id /\ d[i].status = "DOWNLOADED"

\* an INSERT that stores nothing
add_no_announcement(d, id) == d

\* DBHandler.add_new_announcement: INSERT ...; news_id TEXT PRIMARY KEY, the
\* IntegrityError swallowed
add_new_announcement(d, id) ==
    IF \E i \in 1..Len(d) : d[i].news_id = id THEN d ELSE Append(d, LiveRow(id))

\* DBHandler.update_summary: UPDATE ... SET summary_json = ?, status = ?
\* WHERE news_id = ?
update_summary(d, id, kind, status) ==
    [i \in 1..Len(d) |->
        IF d[i].news_id = id
        THEN [d[i] EXCEPT !.summary_json = kind, !.status = status]
        ELSE d[i]]

\* an UPDATE that matches no row
historical_update_nothing(h, id, kind) == h

\* HistoricalDBHandler.update_summary: UPDATE ... SET summary_json = ?
\* WHERE news_id = ?
historical_update_summary(h, id, kind) ==
    [i \in 1..Len(h) |->
        IF h[i].news_id = id THEN [h[i] EXCEPT !.summary_json = kind] ELSE h[i]]

\* the rows of a store under a news_id
RowsOf(d, id) == {i \in 1..Len(d) : d[i].news_id = id}

\* the status column of the id's row; None: no row
StatusOf(d, id) ==
    IF RowsOf(d, id) = {}
    THEN None
    ELSE d[CHOOSE i \in RowsOf(d, id) : TRUE].status

VARIABLES
    historical_db,     \* the historical store
    lookup_args,       \* the last lookup's <<scrip_code, day of the date>>
    lookup_result,     \* what it returned: <<row>>, or <<>> for None
    disp_pc,           \* main() of historical_backfill.py: where it stands
    chunk,             \* main(): the loop variable i
    items_to_process,  \* main(): the chunk's new announcements
    queue,             \* the asyncio.Queue: item positions and None sentinels
    unfinished_tasks,  \* the queue's count of items put and not yet task_done
    throttle_event,    \* the shared asyncio.Event
    wpc,               \* each worker: where it stands
    witem,             \* each worker: the position of the item it holds
    attempt,           \* each worker: fetch_pdf_url_async's loop variable
    exc,               \* each worker: the exception its except clause holds
    payers,            \* workers that began a cool-down since the flag was last raised
    dequeued,          \* per item position: how often queue.get() returned it
    acked,             \* per item position: how often task_done() followed it
    db,                \* the live-run store (database.db)
    files,             \* NEWSIDs whose PDF lies in downloads/
    test_mode,         \* BSEScraper.test_mode
    max_items,         \* BSEScraper.max_items (MAX_ITEMS_TO_PROCESS)
    polls,             \* poll cycles started so far
    run_pc,            \* BSEScraper.run: where it stands
    announcements,     \* run: the candidate list of this cycle
    todo,              \* run: what reversed(announcements) still yields
    item,              \* run: the NEWSID of the item in hand
    new_items_processed,
    notification_tasks,
    pdf_path,          \* run: None, or the NEWSID whose file the path names
    pdf_url,           \* run: None, "" or the URL
    previous_summary,  \* run: the historical summary found, or None
    xbrl,              \* the outcome of run's last get_pdf_url_from_xbrl call
    jit,               \* the last comparison lookup: <<selected news_id, way out>>
    ops,               \* what the last step did to which NEWSID
    terminal_writes,   \* per NEWSID: update_summary calls of this cycle
    tally,             \* this cycle: the new items it tried to resolve, and
                       \* the records it inserted, counted
    tpc,               \* racing threads: where each stands
    targ,              \* racing threads: the store and the record of each
    tout,              \* racing threads: what the INSERT of each did
    jpc,               \* concurrent lookups: where each caller stands
    jarg,              \* concurrent lookups: the item each caller processes
    jprev,             \* concurrent lookups: the entry each caller selected
    jret,              \* concurrent lookups: what each caller returned
    jit_calls,         \* concurrent lookups: the callers that invoked the summarizer
    jit_writes,        \* concurrent lookups: the callers that wrote a payload
    npc,               \* run_all_notifications_sequentially: where it stands
    tasks,             \* its argument: the delivery actions, by kind
    idx,               \* its loop variable
    events,            \* what it has done so far, in order
    req,               \* one call of a request helper: its arguments, its
                       \* loop variable, what it has done so far
    world,             \* repeated polls: what the external services answer
    delivered,         \* the NEWSIDs a notification was delivered for
    cmp                \* comparison lookups of one entry: the entry, and what
                       \* each lookup returned

lookupVars == <<lookup_args, lookup_result>>
poolVars == <<disp_pc, chunk, items_to_process, queue, unfinished_tasks,
              throttle_event, wpc, witem, attempt, exc, payers, dequeued,
              acked>>
liveVars == <<db, files, test_mode, max_items, polls, run_pc, announcements,
              todo, item,
              new_items_processed, notification_tasks, pdf_path, pdf_url,
              previous_summary, xbrl, jit, ops, terminal_writes, tally>>
insertVars == <<tpc, targ, tout>>
jitVars == <<jpc, jarg, jprev, jret, jit_calls, jit_writes>>
notifyVars == <<npc, tasks, idx, events>>
restVars == <<req, world, delivered, cmp>>
raceVars == <<insertVars, jitVars, notifyVars, restVars>>
vars == <<historical_db, lookupVars, poolVars, liveVars, raceVars>>

\* what the backfill pool never touches
offPool == <<lookupVars, liveVars, raceVars>>

Workers == 1..MAX_CONCURRENT_WORKERS

(***************************************************************************)
(* The backfill pool (historical_backfill.py).  asyncio runs one task at a *)
(* time and switches tasks only at an await: each action is the code from  *)
(* one suspension point to the next.                                       *)
(***************************************************************************)
InitPoolAt(pc) ==
    /\ disp_pc = pc
    /\ chunk = 0
    /\ items_to_process = <<>>
    /\ queue = <<>>
    /\ unfinished_tasks = 0
    /\ throttle_event = FALSE
    /\ wpc = [w \in Workers |-> "none"]
    /\ witem = [w \in Workers |-> 0]
    /\ attempt = [w \in Workers |-> 0]
    /\ exc = [w \in Workers |-> None]
    /\ payers = {}
    /\ dequeued = <<>>
    /\ acked = <<>>

\* sequences of length 1..n over S
SeqsUpTo(S, n) == UNION {[1..k -> S] : k \in 1..n}

PoolIds == {"h1", "h2"}

\* the queue holds the chunk's items by position, 1.. ; the sentinel None
\* that main() puts for each worker is position 0
NoMoreWork == 0

Sentinels(n) == [k \in 1..n |-> NoMoreWork]

\* the queue main() has filled when it reaches `await queue.join()`,
\* had it put the sentinels before the join
QueueAtJoinWithSentinels(n) ==
    [k \in 1..n |-> k] \o Sentinels(MAX_CONCURRENT_WORKERS)

\* the queue main() has filled when it reaches `await queue.join()`:
\* the n items of the chunk, by position
QueueAtJoin(n) == [k \in 1..n |-> k]

\* a join that waits for the queue to be empty
JoinReturnsOnEmptyQueue(q, unfinished) == q = <<>>

\* queue.join() returns once every item put has been task_done
JoinReturns(q, unfinished) == unfinished = 0

\* one sentinel too few
SentinelsShort(q) == q \o Sentinels(MAX_CONCURRENT_WORKERS - 1)

\* for _ in range(MAX_CONCURRENT_WORKERS): await queue.put(None)
PutSentinels(q) == q \o Sentinels(MAX_CONCURRENT_WORKERS)

\* a check that takes the cool-down whatever the flag says
ThrottleAlways(flag) == TRUE

\* if throttle_event.is_set():
ThrottleActive(flag) == flag

\* an except clause that only logs
throttle_event_kept(flag) == flag

\* if isinstance(e, etree.XMLSyntaxError): throttle_event.set()
throttle_event_set(flag) == TRUE

\* the announcement lists the upstream may return for a chunk: each
\* announcement of the period once, in any order
ChunkLists ==
    {<<>>} \cup {q \in SeqsUpTo(PoolIds, Cardinality(PoolIds)) :
                    \A i, j \in 1..Len(q) : i # j => q[i] # q[j]}

\* main(): one chunk, from the list fetch to `await queue.join()`
Main_Chunk ==
    /\ disp_pc = "loop"
    /\ chunk < MaxChunks
    /\ \E fetched \in ChunkLists :
          LET in_db == {historical_db[i].news_id : i \in 1..Len(historical_db)}
              new == SelectSeq(fetched, LAMBDA id : id \notin in_db)
          IN  IF new = <<>>
              THEN /\ chunk' = chunk + 1
                   /\ UNCHANGED <<disp_pc, items_to_process, queue,
                                  unfinished_tasks, wpc, dequeued, acked>>
              ELSE /\ items_to_process' = [k \in 1..Len(new) |-> UpstreamItem(new[k])]
                   /\ queue' = QueueAtJoin(Len(new))
                   /\ unfinished_tasks' = Len(queue')
                   /\ wpc' = [w \in Workers |-> "get"]
                   /\ dequeued' = [k \in 1..Len(new) |-> 0]
                   /\ acked' = [k \in 1..Len(new) |-> 0]
                   /\ disp_pc' = "join"
                   /\ UNCHANGED chunk
    /\ UNCHANGED <<historical_db, offPool, throttle_event, witem, attempt,
                   exc, payers>>

\* main(): queue.join() returns; the sentinels are put; `await gather`
Main_JoinReturns ==
    /\ disp_pc = "join"
    /\ JoinReturns(queue, unfinished_tasks)
    /\ queue' = PutSentinels(queue)
    /\ unfinished_tasks' = unfinished_tasks + (Len(queue') - Len(queue))
    /\ disp_pc' = "gather"
    /\ UNCHANGED <<historical_db, offPool, chunk, items_to_process,
                   throttle_event, wpc, witem, attempt, exc, payers, dequeued,
                   acked>>

\* main(): gather returns once every worker task has ended; chunk complete
Main_GatherReturns ==
    /\ disp_pc = "gather"
    /\ \A w \in Workers : wpc[w] = "exited"
    /\ disp_pc' = "loop"
    /\ chunk' = chunk + 1
    /\ UNCHANGED <<historical_db, offPool, items_to_process, queue,
                   unfinished_tasks, throttle_event, wpc, witem, attempt, exc,
                   payers, dequeued, acked>>

\* main(): the loop over the chunks ends
Main_Finish ==
    /\ disp_pc = "loop"
    /\ chunk = MaxChunks
    /\ disp_pc' = "done"
    /\ UNCHANGED <<historical_db, offPool, chunk, items_to_process, queue,
                   unfinished_tasks, throttle_event, wpc, witem, attempt, exc,
                   payers, dequeued, acked>>

\* fetch_pdf_url_async: the head of attempt a for the item at position k:
\* with the flag set the worker starts its cool-down, else it sends the
\* request
EnterAttempt(w, a, k) ==
    /\ attempt' = [attempt EXCEPT ![w] = a]
    /\ witem' = [witem EXCEPT ![w] = k]
    /\ IF ThrottleActive(throttle_event)
       THEN /\ wpc' = [wpc EXCEPT ![w] = "cooldown"]
            /\ payers' = payers \cup {w}
       ELSE /\ wpc' = [wpc EXCEPT ![w] = "request"]
            /\ UNCHANGED payers

\* worker(): item = await queue.get().  An empty queue suspends the worker;
\* a sentinel ends it; an item takes it into fetch_pdf_url_async
QueueGet(w) ==
    IF queue = <<>>
    THEN /\ wpc' = [wpc EXCEPT ![w] = "get"]
         /\ witem' = [witem EXCEPT ![w] = 0]
         /\ attempt' = [attempt EXCEPT ![w] = 0]
         /\ UNCHANGED <<queue, payers, dequeued>>
    ELSE /\ queue' = Tail(queue)
         /\ IF Head(queue) = NoMoreWork
            THEN /\ wpc' = [wpc EXCEPT ![w] = "exited"]
                 /\ witem' = [witem EXCEPT ![w] = 0]
                 /\ attempt' = [attempt EXCEPT ![w] = 0]
                 /\ UNCHANGED <<payers, dequeued>>
            ELSE /\ dequeued' = [dequeued EXCEPT ![Head(queue)] = @ + 1]
                 /\ EnterAttempt(w, 0, Head(queue))

\* worker(): queue.task_done(), and on to the next queue.get()
TaskDone(w) ==
    /\ unfinished_tasks' = unfinished_tasks - 1
    /\ acked' = [acked EXCEPT ![witem[w]] = @ + 1]
    /\ QueueGet(w)

\* worker(): the task starts, or is resumed in queue.get()
Worker_Get(w) ==
    /\ wpc[w] = "get"
    /\ queue # <<>>
    /\ QueueGet(w)
    /\ UNCHANGED <<historical_db, offPool, disp_pc, chunk, items_to_process,
                   unfinished_tasks, throttle_event, exc, acked>>

\* fetch_pdf_url_async: asyncio.sleep(THROTTLE_SECONDS) is over;
\* throttle_event.clear(); the request is sent
Fetch_CoolDownOver(w) ==
    /\ wpc[w] = "cooldown"
    /\ throttle_event' = FALSE
    /\ wpc' = [wpc EXCEPT ![w] = "request"]
    /\ UNCHANGED <<historical_db, offPool, disp_pc, chunk, items_to_process,
                   queue, unfinished_tasks, witem, attempt, exc, payers,
                   dequeued, acked>>

\* fetch_pdf_url_async: the response arrives.
\*   AttachmentURL found   return it; the worker hands the row to a thread
\*   no AttachmentURL      return None; the worker acknowledges the item
\*   ClientError, timeout  wait 2**attempt
\*   XMLSyntaxError        throttle_event.set(), then wait 2**attempt
Fetch_Response(w) ==
    /\ wpc[w] = "request"
    /\ \/ /\ wpc' = [wpc EXCEPT ![w] = "save"]
          /\ UNCHANGED <<queue, unfinished_tasks, witem, attempt, exc,
                         throttle_event, payers, dequeued, acked>>
       \/ /\ TaskDone(w)
          /\ UNCHANGED <<exc, throttle_event>>
       \/ /\ wpc' = [wpc EXCEPT ![w] = "backoff"]
          /\ exc' = [exc EXCEPT ![w] = "ClientError"]
          /\ UNCHANGED <<queue, unfinished_tasks, witem, attempt,
                         throttle_event, payers, dequeued, acked>>
       \/ /\ wpc' = [wpc EXCEPT ![w] = "backoff"]
          /\ exc' = [exc EXCEPT ![w] = "XMLSyntaxError"]
          /\ throttle_event' = throttle_event_set(throttle_event)
          /\ payers' = {}
          /\ UNCHANGED <<queue, unfinished_tasks, witem, attempt, dequeued,
                         acked>>
    /\ UNCHANGED <<historical_db, offPool, disp_pc, chunk, items_to_process>>

\* fetch_pdf_url_async: asyncio.sleep(wait_time) is over.  The next attempt
\* starts, or, all attempts used, None is returned and the worker
\* acknowledges the item
Fetch_BackoffOver(w) ==
    /\ wpc[w] = "backoff"
    /\ exc' = [exc EXCEPT ![w] = None]
    /\ IF attempt[w] + 1 = FETCH_ATTEMPTS
       THEN TaskDone(w)
       ELSE /\ EnterAttempt(w, attempt[w] + 1, witem[w])
            /\ UNCHANGED <<queue, unfinished_tasks, dequeued, acked>>
    /\ UNCHANGED <<historical_db, offPool, disp_pc, chunk, items_to_process,
                   throttle_event>>

\* worker(): asyncio.to_thread(save_to_db_threaded, ...) returns, then
\* queue.task_done()
Worker_Save(w) ==
    /\ wpc[w] = "save"
    /\ historical_db' =
           save_to_db_threaded(historical_db, items_to_process[witem[w]],
                               AttachmentURL(items_to_process[witem[w]].NEWSID))
    /\ TaskDone(w)
    /\ UNCHANGED <<offPool, disp_pc, chunk, items_to_process,
                   throttle_event, exc>>

\* worker(): an exception that no handler takes: in fetch_pdf_url_async one
\* that is not ClientError, TimeoutError or XMLSyntaxError; in
\* save_to_db_threaded one of sqlite3.connect, which stands before the try.
\* worker() has no handler of its own: the task ends with the exception,
\* queue.task_done() is not called for the item
Worker_Raises(w) ==
    /\ wpc[w] \in {"request", "save"}
    /\ wpc' = [wpc EXCEPT ![w] = "failed"]
    /\ exc' = [exc EXCEPT ![w] = "Exception"]
    /\ UNCHANGED <<historical_db, offPool, disp_pc, chunk, items_to_process,
                   queue, unfinished_tasks, throttle_event, witem, attempt,
                   payers, dequeued, acked>>

WorkerNext(w) ==
    \/ Worker_Get(w)
    \/ Fetch_CoolDownOver(w)
    \/ Fetch_Response(w)
    \/ Fetch_BackoffOver(w)
    \/ Worker_Save(w)

MainNext == Main_Chunk \/ Main_JoinReturns \/ Main_GatherReturns \/ Main_Finish

NextPool == MainNext \/ \E w \in Workers : WorkerNext(w)

(***************************************************************************)
(* The poll cycle: BSEScraper.run (core/scraper.py), called once per poll  *)
(* by main.py on a fresh BSEScraper.  run awaits nothing that runs beside  *)
(* it; its steps are cut where the process can be killed with a different  *)
(* durable state (the two stores and downloads/).  The items are those the *)
(* upstream API lists: none carries PDF_URL_OVERRIDE or is_test.           *)
(***************************************************************************)
\* an item whose NEWSID field is missing or empty
NoNewsId == ""

LiveIds == {"h1", "h2"}

\* the candidate lists a poll may fetch (fetch_announcements)
CandidateLists ==
    {<<>>} \cup SeqsUpTo(LiveIds \cup {NoNewsId}, MaxAnnouncements)

Reverse(q) == [k \in 1..Len(q) |-> q[Len(q) + 1 - k]]

\* what get_pdf_url_from_xbrl may come back with: the AttachmentURL; a
\* well-formed response without one; a body that does not parse; all
\* retries of the request failed
XbrlOutcomes == {"url", "no_attachment", "XMLSyntaxError", "exhausted"}

\* the "type" of what summarizer.summarize returns; None: it returned nothing
SummaryKinds == {"summary", "web_link", "error", "other", None}

InitLiveAt(pc) ==
    /\ files = {}
    /\ test_mode \in (IF pc = "off" THEN {FALSE} ELSE BOOLEAN)
    /\ max_items \in (IF pc = "off" THEN {0} ELSE 0..MaxItemsCap)
    /\ polls = 0
    /\ run_pc = pc
    /\ announcements = <<>>
    /\ todo = <<>>
    /\ item = None
    /\ new_items_processed = 0
    /\ notification_tasks = <<>>
    /\ pdf_path = None
    /\ pdf_url = None
    /\ previous_summary = None
    /\ xbrl = None
    /\ jit = <<>>
    /\ ops = {}
    /\ terminal_writes = [id \in LiveIds |-> 0]
    /\ tally = [attempted |-> 0, inserted |-> 0]

\* the locals of one loop iteration, dropped
DropItem ==
    /\ item' = None
    /\ pdf_path' = None
    /\ pdf_url' = None
    /\ previous_summary' = None

\* run(), called for poll number n: announcements fetched; the loop set up,
\* or "No announcements found"
StartRun(n) ==
    /\ run_pc = "idle"
    /\ polls' = n
    /\ \E fetched \in CandidateLists :
          /\ announcements' = fetched
          /\ todo' = Reverse(fetched)
          /\ run_pc' = IF fetched = <<>> THEN "idle" ELSE "next"
    /\ new_items_processed' = 0
    /\ notification_tasks' = <<>>
    /\ terminal_writes' = [id \in LiveIds |-> 0]
    /\ tally' = [attempted |-> 0, inserted |-> 0]
    /\ ops' = {}
    /\ xbrl' = None
    /\ jit' = <<>>
    /\ UNCHANGED <<historical_db, lookupVars, poolVars, raceVars, db, files,
                   test_mode, max_items, item, pdf_path, pdf_url,
                   previous_summary>>

\* main.py: the next poll, up to MaxPolls of them
Run_Start ==
    /\ polls < MaxPolls
    /\ StartRun(polls + 1)

\* a cap that never stops the loop
CapNeverReached(max, n) == FALSE

\* run(), line 464: if self.max_items > 0 and new_items_processed >=
\* self.max_items
CapReached(max, n) == max > 0 /\ n >= max

\* run(): the head of the loop, lines 463-494: the loop ends, the cap breaks
\* it, or the next item is taken and skipped, found new, or found DOWNLOADED
Run_Next ==
    /\ run_pc = "next"
    /\ IF todo = <<>> \/ CapReached(max_items, new_items_processed)
       THEN /\ run_pc' = "idle"
            /\ todo' = <<>>
            /\ announcements' = <<>>
            /\ ops' = {}
            /\ UNCHANGED <<item, new_items_processed>>
       ELSE /\ todo' = Tail(todo)
            /\ UNCHANGED announcements
            /\ IF Head(todo) = NoNewsId
               THEN /\ ops' = {}
                    /\ UNCHANGED <<run_pc, item, new_items_processed>>
               ELSE IF /\ is_processed(db, Head(todo))
                       /\ ~needs_summarization(db, Head(todo))
               THEN /\ ops' = {<<Head(todo), "skip">>}
                    /\ UNCHANGED <<run_pc, item, new_items_processed>>
               ELSE /\ item' = Head(todo)
                    /\ ops' = {}
                    /\ IF ~is_processed(db, Head(todo))
                       THEN /\ new_items_processed' = new_items_processed + 1
                            /\ run_pc' = "resolve"
                       ELSE /\ run_pc' = "prepare"
                            /\ UNCHANGED new_items_processed
    /\ UNCHANGED <<historical_db, lookupVars, poolVars, raceVars, db, files,
                   test_mode, max_items, polls, notification_tasks, pdf_path,
                   pdf_url, previous_summary, xbrl, terminal_writes, tally>>
    /\ jit' = <<>>

\* get_pdf_url_from_xbrl: the URL, or None with nothing else done
XbrlUrl(id, outcome) == IF outcome = "url" THEN AttachmentURL(id) ELSE None

\* run(): a new item, line 496: pdf_url = get_pdf_url_from_xbrl(...)
Run_Resolve ==
    /\ run_pc = "resolve"
    /\ \E outcome \in XbrlOutcomes :
          /\ xbrl' = outcome
          /\ pdf_url' = XbrlUrl(item, outcome)
          /\ run_pc' = IF outcome = "url" THEN "download" ELSE "prepare"
    /\ ops' = {<<item, "resolve">>}
    /\ tally' = [tally EXCEPT !.attempted = @ + 1]
    /\ UNCHANGED <<historical_db, lookupVars, poolVars, raceVars, db, files,
                   test_mode, max_items, polls, announcements, todo, item,
                   new_items_processed, notification_tasks, pdf_path,
                   previous_summary, jit, terminal_writes>>

\* run(): a new item, lines 497-504: download_pdf, then add_new_announcement
\* when the file was saved, or in test mode (where download_pdf only logs)
Run_Download ==
    /\ run_pc = "download"
    /\ IF test_mode
       THEN /\ db' = add_new_announcement(db, item)
            /\ ops' = {<<item, "insert">>}
            /\ UNCHANGED <<files, pdf_path>>
       ELSE \/ /\ files' = files \cup {item}
               /\ pdf_path' = item
               /\ db' = add_new_announcement(db, item)
               /\ ops' = {<<item, "download">>, <<item, "insert">>}
            \/ /\ ops' = {<<item, "download">>}
               /\ UNCHANGED <<files, pdf_path, db>>
    /\ run_pc' = "prepare"
    /\ tally' = [tally EXCEPT !.inserted = @ + (Len(db') - Len(db))]
    /\ UNCHANGED <<historical_db, lookupVars, poolVars, raceVars, test_mode,
                   max_items, polls, announcements, todo, item,
                   new_items_processed, notification_tasks, pdf_url, previous_summary, xbrl, jit,
                   terminal_writes>>

\* run(): lines 505-516: is there something to summarize, is its file in
\* downloads/, and, with no URL in hand, get_pdf_url_from_xbrl(...) or ""
Run_Prepare ==
    /\ run_pc = "prepare"
    /\ IF /\ \/ pdf_path # None
             \/ is_processed(db, item) /\ needs_summarization(db, item)
          /\ item \in files
       THEN /\ run_pc' = "historical"
            /\ pdf_path' = item
            /\ UNCHANGED item
            /\ IF pdf_url = None
               THEN \E outcome \in XbrlOutcomes :
                       /\ xbrl' = outcome
                       /\ pdf_url' = IF outcome = "url"
                                     THEN XbrlUrl(item, outcome) ELSE ""
                       /\ ops' = {<<item, "resolve">>}
               ELSE /\ ops' = {}
                    /\ UNCHANGED <<xbrl, pdf_url>>
            /\ UNCHANGED previous_summary
       ELSE /\ run_pc' = "next"
            /\ ops' = {}
            /\ DropItem
            /\ UNCHANGED xbrl
    /\ UNCHANGED <<historical_db, lookupVars, poolVars, raceVars, db, files,
                   test_mode, max_items, polls, announcements, todo,
                   new_items_processed, notification_tasks, jit,
                   terminal_writes, tally>>

\* a lookup that takes every row for uncached
CacheNeverHit(row) == FALSE

\* _get_historical_summary_for_comparison, line 295:
\* if prev_ann.get("summary_json")
CacheHit(row) == row.summary_json # None

\* a cache that hands out whatever it holds
CachedAny(payload) == payload

\* lines 297-307: the cached payload if its type is "summary", else None
\* (the payload was written by json.dumps: json.loads does not fail on it)
CachedResult(payload) == IF payload = "summary" THEN "summary" ELSE None

\* a JIT step that hands out whatever the summarizer returned
JitResultAny(kind) == kind

\* lines 336-358: the JIT step returns the payload of type "summary" only
JitResult(kind) == IF kind = "summary" THEN "summary" ELSE None

\* a JIT step without its finally clause
JitNoCleanup(f, id) == f

\* lines 365-368: finally: if pdf_path and pdf_path.exists(): unlink()
JitCleanup(f, id) == f \ {id}

\* a JIT step without its except clause: run() is left by the exception
JitExceptionRaised(next) == "idle"

\* lines 359-364: except Exception: ... return None; run() goes on
JitExceptionCaught(next) == next

\* the calls of the JIT step's try block that may raise
JitRaiseSites == {"download_pdf", "process_pdf", "summarize", "update_summary"}

\* what the JIT step did to the row id when `site` raised
JitOpsUntil(id, site) ==
    {<<id, "jit_download">>}
        \cup (IF site # "download_pdf" THEN {<<id, "jit_fetched">>} ELSE {})
        \cup (IF site \in {"summarize", "update_summary"}
              THEN {<<id, "jit_summarize">>} ELSE {})

\* run(): lines 519-525: _get_historical_summary_for_comparison(scrip_code,
\* announcement_date), whole.  No earlier row: None.  A cached payload: the
\* summary, or None for another kind.  Else the JIT step: the attachment of
\* the row is downloaded (in test mode download_pdf only logs the URL),
\* summarized in historical mode, the payload written to the row unless it
\* is empty, the summary returned; an exception ends the step with None;
\* the file fetched is deleted on every way out.
Run_Historical ==
    /\ run_pc = "historical"
    /\ LET found == get_latest_announcement_for_scrip(
                        historical_db, ScripOf(item), strftime(DissemDT(item)[1]))
       IN  \/ /\ found = {}
              /\ jit' = <<None, "no_prev">>
              /\ previous_summary' = None
              /\ ops' = {}
              /\ run_pc' = "summarize"
              /\ UNCHANGED <<historical_db, files>>
           \/ \E i \in found :
                LET prev_ann == historical_db[i]
                    id == prev_ann.news_id
                IN
                IF CacheHit(prev_ann)
                THEN /\ jit' = <<id, IF prev_ann.summary_json = "summary"
                                     THEN "cached_summary" ELSE "cached_other">>
                     /\ previous_summary' = CachedResult(prev_ann.summary_json)
                     /\ ops' = {}
                     /\ run_pc' = "summarize"
                     /\ UNCHANGED <<historical_db, files>>
                ELSE IF test_mode
                THEN /\ jit' = <<id, "not_downloaded">>
                     /\ previous_summary' = None
                     /\ ops' = {}
                     /\ run_pc' = "summarize"
                     /\ UNCHANGED <<historical_db, files>>
                ELSE \/ /\ jit' = <<id, "not_downloaded">>
                        /\ previous_summary' = None
                        /\ ops' = {<<id, "jit_download">>}
                        /\ run_pc' = "summarize"
                        /\ UNCHANGED <<historical_db, files>>
                     \/ \E kind \in SummaryKinds :
                          /\ jit' = <<id, IF kind \in {"summary", "web_link"}
                                          THEN kind ELSE "failed">>
                          /\ historical_db' =
                               IF kind = None
                               THEN historical_db
                               ELSE historical_update_summary(
                                        historical_db, id, kind)
                          /\ previous_summary' = JitResult(kind)
                          /\ files' = JitCleanup(files \cup {id}, id)
                          /\ ops' = {<<id, "jit_download">>,
                                     <<id, "jit_fetched">>,
                                     <<id, "jit_summarize">>}
                                    \cup (IF kind = None THEN {}
                                          ELSE {<<id, "jit_write">>})
                          /\ run_pc' = "summarize"
                     \/ \E site \in JitRaiseSites :
                          /\ jit' = <<id, "exception">>
                          /\ previous_summary' = None
                          /\ files' = IF site = "download_pdf" THEN files
                                      ELSE JitCleanup(files \cup {id}, id)
                          /\ ops' = JitOpsUntil(id, site)
                          /\ run_pc' = JitExceptionCaught("summarize")
                          /\ UNCHANGED historical_db
    /\ UNCHANGED <<lookupVars, poolVars, raceVars, db, test_mode, max_items,
                   polls, announcements, todo, item, new_items_processed,
                   notification_tasks, pdf_path, pdf_url, xbrl,
                   terminal_writes, tally>>

\* a web-link notification that never carries the earlier summary
NotificationWithoutContext(id, kind, prev) ==
    CASE kind = "summary" -> <<[news_id |-> id, notify |-> "summary"]>>
      [] kind = "web_link" -> <<[news_id |-> id, notify |-> "weblink"]>>
      [] kind = "error" -> <<[news_id |-> id, notify |-> "error"]>>
      [] OTHER -> <<>>

\* process_and_summarize: the notification it returns for a payload, or None
NotificationFor(id, kind, prev) ==
    CASE kind = "summary" -> <<[news_id |-> id, notify |-> "summary"]>>
      [] kind = "web_link" /\ prev # None ->
            <<[news_id |-> id, notify |-> "weblink_with_context"]>>
      [] kind = "web_link" /\ prev = None ->
            <<[news_id |-> id, notify |-> "weblink"]>>
      [] kind = "error" -> <<[news_id |-> id, notify |-> "error"]>>
      [] OTHER -> <<>>

\* PDFProcessor.process_pdf: what it makes of the file: the text of a large
\* document; the links of a small one, a media link among them, or web links
\* only; a small one without links; or a file it cannot read
ContentKinds == {"text", "media_link", "web_link_only", "no_link", "unreadable"}

\* GeminiSummarizer.summarize: the "type" of what it returns.  For a text
\* and for a media link it is what the model call yields (llm); web links
\* only are recorded as a web_link payload; anything else is an error
summarize(content, llm) ==
    CASE content \in {"text", "media_link"} -> llm
      [] content = "web_link_only" -> "web_link"
      [] OTHER -> "error"

\* a caller that takes what the summarizer returned as it is
SummaryDataAsReturned(returned) == returned

\* process_and_summarize, lines 399-405: no data is made an error payload
SummaryData(returned) == IF returned = None THEN "error" ELSE returned

\* the two statuses taken for one another
StatusForSwapped(kind) ==
    IF kind # "error" THEN "ERROR_PROCESSING" ELSE "PROCESSED"

\* process_and_summarize, lines 410-412
StatusFor(kind) == IF kind # "error" THEN "PROCESSED" ELSE "ERROR_PROCESSING"

\* run(): lines 526-535: process_and_summarize.  Nothing in test mode, nothing
\* for a record that is not DOWNLOADED; else the PDF is processed and
\* summarized, the record updated and the notification appended.
Run_Summarize ==
    /\ run_pc = "summarize"
    /\ IF test_mode \/ ~needs_summarization(db, item)
       THEN /\ ops' = {}
            /\ UNCHANGED <<db, notification_tasks, terminal_writes>>
       ELSE \E returned \in {summarize(content, llm) :
                                content \in ContentKinds, llm \in SummaryKinds} :
              LET kind == SummaryData(returned)
                  status == StatusFor(kind)
              IN  /\ db' = update_summary(db, item, kind, status)
                  /\ ops' = {<<item, "summarize">>, <<item, "write">>}
                  /\ terminal_writes' =
                        [terminal_writes EXCEPT ![item] = @ + 1]
                  /\ notification_tasks' =
                        notification_tasks
                            \o NotificationFor(item, kind, previous_summary)
    /\ run_pc' = "next"
    /\ DropItem
    /\ UNCHANGED <<historical_db, lookupVars, poolVars, raceVars, files,
                   test_mode, max_items, polls, announcements, todo,
                   new_items_processed, xbrl, jit, tally>>

\* process_and_summarize, line 413: db.update_summary raises (sqlite3.Error).
\* Neither process_and_summarize nor run() has a handler: the exception
\* leaves run(), whose notification list is never returned; run_single_poll
\* logs it and the poll is over
Run_WriteFails ==
    /\ run_pc = "summarize"
    /\ ~test_mode
    /\ needs_summarization(db, item)
    /\ ops' = {<<item, "summarize">>, <<item, "write_failed">>}
    /\ run_pc' = "idle"
    /\ announcements' = <<>>
    /\ todo' = <<>>
    /\ DropItem
    /\ new_items_processed' = 0
    /\ notification_tasks' = <<>>
    /\ xbrl' = None
    /\ jit' = <<>>
    /\ tally' = [attempted |-> 0, inserted |-> 0]
    /\ UNCHANGED <<historical_db, lookupVars, poolVars, raceVars, db, files,
                   test_mode, max_items, polls, terminal_writes>>

\* the process is killed and restarted: the stores and downloads/ stay
Crash ==
    /\ run_pc \notin {"off", "idle"}
    /\ run_pc' = "idle"
    /\ announcements' = <<>>
    /\ todo' = <<>>
    /\ DropItem
    /\ new_items_processed' = 0
    /\ notification_tasks' = <<>>
    /\ ops' = {}
    /\ xbrl' = None
    /\ jit' = <<>>
    /\ tally' = [attempted |-> 0, inserted |-> 0]
    /\ UNCHANGED <<historical_db, lookupVars, poolVars, raceVars, db, files,
                   test_mode, max_items, polls, terminal_writes>>

\* main.py, run_single_poll, lines 80-83: run() has returned its list and
\* run_all_notifications_sequentially delivers every action of it (the
\* notifier delivers, the process is not killed meanwhile)
Poll_Notify ==
    /\ run_pc = "idle"
    /\ notification_tasks # <<>>
    /\ delivered' = delivered \cup {notification_tasks[k].news_id :
                                        k \in 1..Len(notification_tasks)}
    /\ notification_tasks' = <<>>
    /\ UNCHANGED <<historical_db, lookupVars, poolVars, insertVars, jitVars,
                   notifyVars, req, world, cmp, db, files, test_mode,
                   max_items,
                   polls, run_pc, announcements, todo, item,
                   new_items_processed, pdf_path, pdf_url, previous_summary,
                   xbrl, jit, ops, terminal_writes, tally>>

\* main.py: the next poll starts when the last one has delivered its list.
\* main.py polls for ever (while True): the polls after MaxPolls are counted
\* as poll MaxPolls
Poll_Start ==
    /\ notification_tasks = <<>>
    /\ StartRun(Min(polls + 1, MaxPolls))

\* the steps of a poll of main.py that is not killed: run() and the delivery
\* of what it returns
PollSteps ==
    \/ Poll_Start
    \/ Run_Next
    \/ Run_Resolve
    \/ Run_Download
    \/ Run_Prepare
    \/ Run_Historical
    \/ Run_Summarize
    \/ Poll_Notify

NextNotifying == PollSteps \/ Crash

NextLive ==
    \/ Run_Start
    \/ Run_Next
    \/ Run_Resolve
    \/ Run_Download
    \/ Run_Prepare
    \/ Run_Historical
    \/ Run_Summarize
    \/ Run_WriteFails
    \/ Crash

(***************************************************************************)
(* SpecLookup: rows stored one by one, lookups at any time.                *)
(***************************************************************************)
\* save_to_db_threaded(db_path, item, pdf_url), the date of the item valid
Lookup_Store ==
    \E id \in NewsIds, s \in Scrips, d \in Days :
        /\ Len(historical_db) < MaxHistRows
        /\ historical_db' = HistInsert(historical_db,
                                HistRow(id, s, strftime(d), AttachmentURL(id)))
        /\ UNCHANGED <<lookupVars, poolVars, liveVars, raceVars>>

\* HistoricalDBHandler.get_latest_announcement_for_scrip(scrip, date)
Lookup_Get ==
    \E s \in Scrips, d \in Days :
        LET found == get_latest_announcement_for_scrip(historical_db, s, strftime(d))
        IN  /\ lookup_args' = <<s, d>>
            /\ \/ found = {} /\ lookup_result' = <<>>
               \/ \E i \in found : lookup_result' = <<historical_db[i]>>
            /\ UNCHANGED <<historical_db, poolVars, liveVars, raceVars>>

NextLookup == Lookup_Store \/ Lookup_Get

(***************************************************************************)
(* SpecInsert: threads inserting the same record at the same time: the     *)
(* pool's workers run save_to_db_threaded under asyncio.to_thread, each on *)
(* a connection of its own; add_new_announcement runs in every process     *)
(* that polls.  SQLite lets one connection write at a time: the INSERT,    *)
(* its constraint check and the commit are one step.                       *)
(***************************************************************************)
\* the calls the threads may race on: the store, the item and the URL
RaceCalls ==
    {[store |-> st, item |-> it, pdf_url |-> u] :
        st \in {"historical", "live"},
        it \in {UpstreamItem("h1"),
                [UpstreamItem("h1") EXCEPT !.DissemDT = InvalidDate]},
        u \in {"u1", "u3"}}

\* the historical store the race starts from: the row of another NEWSID
RaceHistoricalStores ==
    {<<>>, <<HistRow("h3", ScripOf("h3"), strftime(DissemDT("h3")[1]),
                     AttachmentURL("h3"))>>}

\* the live store the race starts from
RaceLiveStores == {<<>>, <<LiveRow("h3")>>}

InitRace ==
    /\ \E call \in RaceCalls, racing \in (SUBSET Workers) \ {{}} :
          /\ tpc = [t \in Workers |-> IF t \in racing THEN "called" ELSE "off"]
          /\ targ = [t \in Workers |-> IF t \in racing THEN call ELSE None]
    /\ tout = [t \in Workers |-> None]

\* the thread's call up to its INSERT: add_new_announcement has nothing
\* before it; save_to_db_threaded returns on a DissemDT that does not parse
Race_Enter(t) ==
    /\ tpc[t] = "called"
    /\ IF targ[t].store = "historical" /\ targ[t].item.DissemDT = InvalidDate
       THEN /\ tpc' = [tpc EXCEPT ![t] = "returned"]
            /\ tout' = [tout EXCEPT ![t] = "invalid_date"]
       ELSE /\ tpc' = [tpc EXCEPT ![t] = "insert"]
            /\ UNCHANGED tout
    /\ UNCHANGED <<historical_db, lookupVars, poolVars, liveVars, targ,
                   jitVars, notifyVars, restVars>>

\* the INSERT and its commit, or the IntegrityError the except clause drops
Race_Insert(t) ==
    /\ tpc[t] = "insert"
    /\ tpc' = [tpc EXCEPT ![t] = "returned"]
    /\ IF targ[t].store = "historical"
       THEN /\ historical_db' = save_to_db_threaded(historical_db,
                                    targ[t].item, targ[t].pdf_url)
            /\ tout' = [tout EXCEPT ![t] =
                          IF Len(historical_db') > Len(historical_db)
                          THEN "created" ELSE "IntegrityError"]
            /\ UNCHANGED liveVars
       ELSE /\ db' = add_new_announcement(db, targ[t].item.NEWSID)
            /\ tout' = [tout EXCEPT ![t] =
                          IF Len(db') > Len(db)
                          THEN "created" ELSE "IntegrityError"]
            /\ UNCHANGED <<historical_db, files, test_mode, max_items, polls,
                           run_pc, announcements, todo, item,
                           new_items_processed, notification_tasks, pdf_path,
                           pdf_url, previous_summary, xbrl, jit, ops,
                           terminal_writes, tally>>
    /\ UNCHANGED <<lookupVars, poolVars, targ, jitVars, notifyVars,
                   restVars>>

NextInsert == \E t \in Workers : Race_Enter(t) \/ Race_Insert(t)

(***************************************************************************)
(* Two lookups at once.  main.py (run_single_poll) and backfill.py each    *)
(* build a BSEScraper(test_mode=False) over the same historical store and  *)
(* the same downloads directory and call run(); nothing in either keeps    *)
(* the other from running.  Each caller is inside                          *)
(* _get_historical_summary_for_comparison; an action is the code between   *)
(* two points where the other process is let in.                           *)
(***************************************************************************)
\* the two programs that call BSEScraper.run: main.py and backfill.py
Callers == {1, 2}

\* the historical stores the two callers start from: empty, or the row h1
\* without a payload or with one
JitHistoricalStores ==
    {<<>>}
      \cup {<<[HistRow("h1", ScripOf("h1"), strftime(DissemDT("h1")[1]),
                       AttachmentURL("h1")) EXCEPT !.summary_json = p]>> :
               p \in {None, "summary", "web_link"}}

InitJit ==
    /\ \E calling \in (SUBSET Callers) \ {{}} :
          jpc = [c \in Callers |-> IF c \in calling THEN "call" ELSE "off"]
    /\ jarg \in [Callers -> LiveIds \cup {NoNewsId}]
    /\ \A c \in Callers : jpc[c] = "off" <=> jarg[c] = NoNewsId
    /\ jprev = [c \in Callers |-> None]
    /\ jret = [c \in Callers |-> None]
    /\ jit_calls = {}
    /\ jit_writes = {}

jitFrame == <<lookupVars, poolVars, insertVars, notifyVars, restVars, db,
              test_mode,
              max_items, polls, run_pc, announcements, todo, item,
              new_items_processed, notification_tasks, pdf_path, pdf_url,
              previous_summary, xbrl, jit, ops, terminal_writes, tally, jarg>>

\* lines 283-311: the lookup and the cached payload
Jit_Select(c) ==
    /\ jpc[c] = "call"
    /\ LET found == get_latest_announcement_for_scrip(
                        historical_db, ScripOf(jarg[c]),
                        strftime(DissemDT(jarg[c])[1]))
       IN  \/ /\ found = {}
              /\ jpc' = [jpc EXCEPT ![c] = "returned"]
              /\ UNCHANGED <<jprev, jret>>
           \/ \E i \in found :
                LET prev_ann == historical_db[i]
                IN  /\ jprev' = [jprev EXCEPT ![c] = prev_ann.news_id]
                    /\ IF CacheHit(prev_ann)
                       THEN /\ jpc' = [jpc EXCEPT ![c] = "returned"]
                            /\ jret' = [jret EXCEPT ![c] =
                                          CachedResult(prev_ann.summary_json)]
                       ELSE /\ jpc' = [jpc EXCEPT ![c] = "download"]
                            /\ UNCHANGED jret
    /\ UNCHANGED <<historical_db, files, jit_calls, jit_writes, jitFrame>>

\* lines 317-329: download_pdf writes the file, or fails and the call
\* returns None; process_pdf reads the file; the summarizer is invoked
Jit_Fetch(c) ==
    /\ jpc[c] = "download"
    /\ \/ /\ jpc' = [jpc EXCEPT ![c] = "returned"]
          /\ UNCHANGED <<files, jit_calls>>
       \/ /\ files' = files \cup {jprev[c]}
          /\ jit_calls' = jit_calls \cup {c}
          /\ jpc' = [jpc EXCEPT ![c] = "summarize"]
    /\ UNCHANGED <<historical_db, jprev, jret, jit_writes, jitFrame>>

\* lines 329-372: the summarizer returns or raises; the payload is written
\* unless it is empty; the summary is returned; the file is deleted
Jit_Summarized(c) ==
    /\ jpc[c] = "summarize"
    /\ jpc' = [jpc EXCEPT ![c] = "returned"]
    /\ files' = JitCleanup(files, jprev[c])
    /\ \/ \E kind \in SummaryKinds :
            /\ jret' = [jret EXCEPT ![c] = JitResult(kind)]
            /\ IF kind = None
               THEN UNCHANGED <<historical_db, jit_writes>>
               ELSE /\ historical_db' = historical_update_summary(
                                            historical_db, jprev[c], kind)
                    /\ jit_writes' = jit_writes \cup {c}
       \/ UNCHANGED <<historical_db, jret, jit_writes>>
    /\ UNCHANGED <<jprev, jit_calls, jitFrame>>

NextJit == \E c \in Callers : Jit_Select(c) \/ Jit_Fetch(c) \/ Jit_Summarized(c)

(***************************************************************************)
(* The notification sequencer (scraper.py,                                 *)
(* run_all_notifications_sequentially).  An action is the code from one    *)
(* await to the next.  A delivery action is a call of the notifier; it     *)
(* returns or raises.                                                      *)
(***************************************************************************)
\* process_and_summarize, lines 416-430: the delivery actions it returns
NotifyKinds == {"summary", "weblink", "weblink_with_context", "error"}

\* the lists of delivery actions a cycle may hand over
TaskLists == UNION {[1..n -> NotifyKinds] : n \in 0..MaxTasks}

InitNotify ==
    /\ npc = "idle"
    /\ tasks \in TaskLists
    /\ idx = 0
    /\ events = <<>>

notifyFrame == <<historical_db, lookupVars, poolVars, liveVars, insertVars,
                 jitVars, restVars, tasks>>

\* a sequencer that sleeps after every delivery
SleepsAfterEvery(i, total) == TRUE

\* line 446: if idx < total: await asyncio.sleep(2)
SleepsAfter(i, total) == i < total

\* lines 437-445: nothing for an empty list; else the first action is started
Notify_Call ==
    /\ npc = "idle"
    /\ IF tasks = <<>>
       THEN /\ npc' = "returned"
            /\ UNCHANGED <<idx, events>>
       ELSE /\ idx' = 1
            /\ events' = <<<<"start", 1>>>>
            /\ npc' = "deliver"
    /\ UNCHANGED notifyFrame

\* what follows a delivery or a sleep: the next action is started (lines
\* 443-445), or the loop is over (line 448)
NotifyGoOn(done) ==
    IF idx < Len(tasks)
    THEN /\ idx' = idx + 1
         /\ events' = Append(done, <<"start", idx + 1>>)
         /\ npc' = "deliver"
    ELSE /\ events' = done
         /\ npc' = "returned"
         /\ UNCHANGED idx

\* lines 445-447: the awaited action returns; the sleep starts if due
Notify_Delivered ==
    /\ npc = "deliver"
    /\ IF SleepsAfter(idx, Len(tasks))
       THEN /\ events' = events \o <<<<"done", idx>>, <<"sleep", idx>>>>
            /\ npc' = "sleep"
            /\ UNCHANGED idx
       ELSE NotifyGoOn(Append(events, <<"done", idx>>))
    /\ UNCHANGED notifyFrame

\* line 445: the awaited action raises; the loop has no handler, the
\* exception leaves the function (main.py, run_single_poll, logs it)
Notify_DeliveryFails ==
    /\ npc = "deliver"
    /\ events' = Append(events, <<"raised", idx>>)
    /\ npc' = "raised"
    /\ UNCHANGED <<idx, notifyFrame>>

\* line 447: the sleep is over
Notify_SleepOver ==
    /\ npc = "sleep"
    /\ NotifyGoOn(events)
    /\ UNCHANGED notifyFrame

NextNotify ==
    Notify_Call \/ Notify_Delivered \/ Notify_DeliveryFails \/ Notify_SleepOver

(***************************************************************************)
(* Poll cycles against external services that do not change: the upstream *)
(* list is the same in every poll, and so are the answer of the XBRL       *)
(* service and the fate of the download for each id.  run() returns from   *)
(* every cycle.                                                            *)
(***************************************************************************)
Worlds ==
    [list : CandidateLists,
     xbrl : [LiveIds -> XbrlOutcomes],
     download : [LiveIds -> BOOLEAN]]

\* run(): fetch_announcements returns the list of the unchanged upstream
Rerun_Start ==
    /\ Run_Start
    /\ announcements' = world.list

\* run(): get_pdf_url_from_xbrl gets the answer it got before
Rerun_Resolve ==
    /\ Run_Resolve
    /\ xbrl' = world.xbrl[item]

\* run(): download_pdf fares as it fared before
Rerun_Download ==
    /\ Run_Download
    /\ ~test_mode => (pdf_path' = item <=> world.download[item])

\* run(): a resolution at line 516 gets the answer it got before
Rerun_Prepare ==
    /\ Run_Prepare
    /\ (<<item, "resolve">> \in ops') => xbrl' = world.xbrl[item]

\* main.py polls for ever (while True): the polls after MaxPolls are
\* counted as poll MaxPolls
Repoll_Start ==
    /\ StartRun(Min(polls + 1, MaxPolls))
    /\ announcements' = world.list

NextRepoll ==
    \/ Repoll_Start
    \/ Run_Next
    \/ Rerun_Resolve
    \/ Rerun_Download
    \/ Rerun_Prepare
    \/ Run_Historical
    \/ Run_Summarize

NextRerun ==
    \/ Rerun_Start
    \/ Run_Next
    \/ Rerun_Resolve
    \/ Rerun_Download
    \/ Rerun_Prepare
    \/ Run_Historical
    \/ Run_Summarize

(***************************************************************************)
(* The comparison lookup with its payloads in full                         *)
(* (_get_historical_summary_for_comparison): the summary with its links,   *)
(* and the context dictionary returned beside it.  One historical entry,   *)
(* looked up again and again; an action is one call.                       *)
(***************************************************************************)
\* the media URLs a small PDF may link to
MediaUrls == {"m1", "m2"}

\* what summarizer.summarize returns in historical mode, with the links it
\* sets: none for a text (summarizer.py line 335), the one media link for a
\* media summary (line 249); <<>>: it returned nothing
JitSummaries ==
    {<<>>}
      \cup {<<[type |-> "summary", links |-> <<>>]>>}
      \cup {<<[type |-> "summary", links |-> <<[url |-> m, link_type |-> "media"]>>]>> :
               m \in MediaUrls}
      \cup {<<[type |-> t, links |-> <<>>]>> : t \in {"web_link", "error", "other"}}

\* json.dumps and json.loads of a payload
json_dumps(payload) == <<"json", payload>>
json_loads(text) == text[2]

\* line 294: comparison_context = {"comparison_pdf_url": prev_ann.get("pdf_url")}
\* (a key that is not set: None)
ComparisonContext(prev_ann) ==
    [comparison_pdf_url |-> prev_ann.pdf_url, comparison_media_url |-> None]

\* lines 343-346: the first link of the summary goes into the context
JitContext(prev_ann, summary_json) ==
    IF summary_json.links # <<>>
    THEN [ComparisonContext(prev_ann) EXCEPT
             !.comparison_media_url = summary_json.links[1].url]
    ELSE ComparisonContext(prev_ann)

\* lines 295-307: what a lookup returns for a cached payload: the summary and
\* the context of line 294, or None (<<>>) for a payload of another kind
CachedReturn(prev_ann) ==
    LET summary == json_loads(prev_ann.summary_json)
    IN  IF summary.type = "summary"
        THEN <<summary, ComparisonContext(prev_ann)>>
        ELSE <<>>

\* lines 336-358: what the JIT step returns for the summarizer's answer
JitReturn(prev_ann, answer) ==
    IF answer # <<>> /\ answer[1].type = "summary"
    THEN <<answer[1], JitContext(prev_ann, answer[1])>>
    ELSE <<>>

\* lines 340, 347, 357: the payload the JIT step leaves in the entry
JitPayload(prev_ann, answer) ==
    IF answer = <<>> THEN prev_ann.summary_json ELSE json_dumps(answer[1])

\* the entry as the backfill stored it, or with the payload an earlier
\* process has left in it
InitCompare ==
    \E id \in LiveIds, answer \in JitSummaries :
        cmp = [prev_ann |-> [news_id |-> id, pdf_url |-> AttachmentURL(id),
                             summary_json |->
                                 IF answer = <<>> THEN <<>>
                                 ELSE json_dumps(answer[1])],
               returns |-> <<>>, jit |-> 0]

compareFrame == <<historical_db, lookupVars, poolVars, liveVars, insertVars,
                  jitVars, notifyVars, req, world, delivered>>

\* one call that selects the entry: the cached payload, or the JIT step (its
\* download fails, or the summarizer answers)
Cmp_Lookup ==
    /\ Len(cmp.returns) < MaxLookups
    /\ IF cmp.prev_ann.summary_json # <<>>
       THEN cmp' = [cmp EXCEPT !.returns = Append(@, CachedReturn(cmp.prev_ann))]
       ELSE \/ cmp' = [cmp EXCEPT !.returns = Append(@, <<>>)]
            \/ \E answer \in JitSummaries :
                  cmp' = [cmp EXCEPT
                            !.returns = Append(@, JitReturn(cmp.prev_ann, answer)),
                            !.prev_ann.summary_json =
                                JitPayload(cmp.prev_ann, answer),
                            !.jit = IF JitReturn(cmp.prev_ann, answer) # <<>>
                                    THEN Len(cmp.returns) + 1 ELSE @]
    /\ UNCHANGED compareFrame

NextCompare == Cmp_Lookup

(***************************************************************************)
(* The request helpers of the scraper: _make_resilient_request and         *)
(* _make_api_request (core/scraper.py).  One call; an action is an attempt *)
(* or the sleep after it.                                                  *)
(***************************************************************************)
RequestHelpers == {"_make_resilient_request", "_make_api_request"}

\* what an attempt may end with: a response (and, in _make_api_request, its
\* JSON), an exception of requests, a body that is not JSON, or an
\* exception of another class (OSError: no CA bundle to be found)
AttemptOutcomes(fn) ==
    IF fn = "_make_api_request"
    THEN {"ok", "RequestException", "JSONDecodeError", "OSError"}
    ELSE {"ok", "RequestException", "OSError"}

\* lines 101 and 145: the except clause of each helper
Caught(fn, e) ==
    \/ e = "RequestException"
    \/ fn = "_make_api_request" /\ e = "JSONDecodeError"

\* a wait that does not grow
WaitTimeConstant(backoff_factor, a) == backoff_factor

\* lines 102 and 154: wait_time = backoff_factor * (2**attempt)
WaitTime(backoff_factor, a) == backoff_factor * 2^a

\* the calls: the defaults of either helper, and every smaller `retries`
InitRetry ==
    \E fn \in RequestHelpers,
       n \in (1..MaxRetries) \cup {RESILIENT_RETRIES, API_RETRIES},
       b \in {RESILIENT_BACKOFF, API_BACKOFF} :
        req = [fn |-> fn, retries |-> n, backoff_factor |-> b, attempt |-> 0,
               pc |-> "request", requests |-> 0, waits |-> <<>>,
               result |-> None]

retryFrame == <<historical_db, lookupVars, poolVars, liveVars, insertVars,
                jitVars, notifyVars, world, delivered, cmp>>

\* lines 92-108 and 138-156: one pass of the loop up to its sleep
Req_Attempt ==
    /\ req.pc = "request"
    /\ \E outcome \in AttemptOutcomes(req.fn) :
          LET sent == [req EXCEPT !.requests = @ + 1]
          IN  req' =
                IF outcome = "ok"
                THEN [sent EXCEPT !.pc = "returned", !.result = "response"]
                ELSE IF ~Caught(req.fn, outcome)
                THEN [sent EXCEPT !.pc = "raised", !.result = outcome]
                ELSE IF req.attempt + 1 = req.retries
                THEN [sent EXCEPT !.pc = "returned", !.result = None]
                ELSE [sent EXCEPT !.pc = "sleep",
                                  !.waits = Append(@, WaitTime(req.backoff_factor,
                                                               req.attempt))]
    /\ UNCHANGED retryFrame

\* lines 108 and 156: time.sleep(wait_time) is over; the next attempt
Req_SleepOver ==
    /\ req.pc = "sleep"
    /\ req' = [req EXCEPT !.pc = "request", !.attempt = @ + 1]
    /\ UNCHANGED retryFrame

NextRetry == Req_Attempt \/ Req_SleepOver

(***************************************************************************)
(* The specifications.                                                     *)
(***************************************************************************)
InitLookupIdle ==
    /\ lookup_args = <<>>
    /\ lookup_result = <<>>

InitJitOff ==
    /\ jpc = [c \in Callers |-> "off"]
    /\ jarg = [c \in Callers |-> NoNewsId]
    /\ jprev = [c \in Callers |-> None]
    /\ jret = [c \in Callers |-> None]
    /\ jit_calls = {}
    /\ jit_writes = {}

InitNotifyOff ==
    /\ npc = "off"
    /\ tasks = <<>>
    /\ idx = 0
    /\ events = <<>>

InitInsertOff ==
    /\ tpc = [t \in Workers |-> "off"]
    /\ targ = [t \in Workers |-> None]
    /\ tout = [t \in Workers |-> None]

InitRestOff ==
    /\ req = <<>>
    /\ world = <<>>
    /\ delivered = {}
    /\ cmp = <<>>

InitRaceOff == InitInsertOff /\ InitJitOff /\ InitNotifyOff /\ InitRestOff

\* the historical store a poll cycle may find: empty, or with the row of h1
\* as a backfill run leaves it
InitialHistoricalStores ==
    {<<>>, <<HistRow("h1", ScripOf("h1"), strftime(DissemDT("h1")[1]),
                     AttachmentURL("h1"))>>}

InitLive ==
    /\ historical_db \in InitialHistoricalStores
    /\ InitLookupIdle
    /\ InitPoolAt("off")
    /\ db = <<>>
    /\ InitLiveAt("idle")
    /\ InitRaceOff

SpecLive == InitLive /\ [][NextLive]_vars

InitPool ==
    /\ historical_db = <<>>
    /\ InitLookupIdle
    /\ InitPoolAt("loop")
    /\ db = <<>>
    /\ InitLiveAt("off")
    /\ InitRaceOff

SpecPool == InitPool /\ [][NextPool]_vars

\* the pool with requests and store writes that may raise anything
SpecPoolErr ==
    InitPool /\ [][NextPool \/ \E w \in Workers : Worker_Raises(w)]_vars

\* the asyncio event loop runs every task that is ready: main() and each
\* worker get their turn
SpecPoolFair ==
    /\ SpecPool
    /\ WF_vars(MainNext)
    /\ \A w \in Workers : WF_vars(WorkerNext(w))

\* either program is started: main.py or historical_backfill.py
SpecPrograms == (InitLive \/ InitPool) /\ [][NextLive \/ NextPool]_vars

InitLookup ==
    /\ historical_db = <<>>
    /\ InitLookupIdle
    /\ InitPoolAt("off")
    /\ db = <<>>
    /\ InitLiveAt("off")
    /\ InitRaceOff

SpecLookup == InitLookup /\ [][NextLookup]_vars

InitInsert ==
    /\ historical_db \in RaceHistoricalStores
    /\ InitLookupIdle
    /\ InitPoolAt("off")
    /\ db \in RaceLiveStores
    /\ InitLiveAt("off")
    /\ InitRace
    /\ InitJitOff
    /\ InitNotifyOff
    /\ InitRestOff

SpecInsert == InitInsert /\ [][NextInsert]_vars

InitJitRace ==
    /\ historical_db \in JitHistoricalStores
    /\ InitLookupIdle
    /\ InitPoolAt("off")
    /\ db = <<>>
    /\ InitLiveAt("off")
    /\ InitInsertOff
    /\ InitJit
    /\ InitNotifyOff
    /\ InitRestOff

SpecJit == InitJitRace /\ [][NextJit]_vars

InitNotifier ==
    /\ historical_db = <<>>
    /\ InitLookupIdle
    /\ InitPoolAt("off")
    /\ db = <<>>
    /\ InitLiveAt("off")
    /\ InitInsertOff
    /\ InitJitOff
    /\ InitNotify
    /\ InitRestOff

SpecNotify == InitNotifier /\ [][NextNotify]_vars

InitRequest ==
    /\ historical_db = <<>>
    /\ InitLookupIdle
    /\ InitPoolAt("off")
    /\ db = <<>>
    /\ InitLiveAt("off")
    /\ InitInsertOff
    /\ InitJitOff
    /\ InitNotifyOff
    /\ InitRetry
    /\ world = <<>>
    /\ delivered = {}
    /\ cmp = <<>>

SpecRetry == InitRequest /\ [][NextRetry]_vars

InitRerun ==
    /\ historical_db \in InitialHistoricalStores
    /\ InitLookupIdle
    /\ InitPoolAt("off")
    /\ db = <<>>
    /\ InitLiveAt("idle")
    /\ InitInsertOff
    /\ InitJitOff
    /\ InitNotifyOff
    /\ req = <<>>
    /\ world \in Worlds
    /\ delivered = {}
    /\ cmp = <<>>

SpecRerun == InitRerun /\ [][NextRerun]_vars

\* the live stores an interrupted poll cycle may leave behind: records still
\* DOWNLOADED, inserted in any order, each with its file in downloads/
\* (run() inserts the record right after the download, lines 498-502, and a
\* kill before line 413 leaves both)
LeftoverStores ==
    {<<>>} \cup {[k \in 1..Len(q) |-> LiveRow(q[k])] :
                    q \in {r \in SeqsUpTo(LiveIds, Cardinality(LiveIds)) :
                              \A i, j \in 1..Len(r) : i # j => r[i] # r[j]}}

\* main.py after a restart: BSEScraper(test_mode=False) over what the killed
\* process left
InitResume ==
    /\ historical_db \in InitialHistoricalStores
    /\ InitLookupIdle
    /\ InitPoolAt("off")
    /\ db \in LeftoverStores
    /\ files = {db[i].news_id : i \in 1..Len(db)}
    /\ test_mode = FALSE
    /\ max_items \in 0..MaxItemsCap
    /\ polls = 0
    /\ run_pc = "idle"
    /\ announcements = <<>>
    /\ todo = <<>>
    /\ item = None
    /\ new_items_processed = 0
    /\ notification_tasks = <<>>
    /\ pdf_path = None
    /\ pdf_url = None
    /\ previous_summary = None
    /\ xbrl = None
    /\ jit = <<>>
    /\ ops = {}
    /\ terminal_writes = [id \in LiveIds |-> 0]
    /\ tally = [attempted |-> 0, inserted |-> 0]
    /\ InitRaceOff

\* poll cycles that run() returns from
NextResume ==
    \/ Run_Start
    \/ Run_Next
    \/ Run_Resolve
    \/ Run_Download
    \/ Run_Prepare
    \/ Run_Historical
    \/ Run_Summarize

SpecResume == InitResume /\ [][NextResume]_vars

\* the unchanging services of a scraper that polls with a cap: a list of
\* announcements with a NEWSID each
CappedWorlds == {w \in Worlds : NoNewsId \notin {w.list[k] : k \in 1..Len(w.list)}}

\* main.py with MAX_ITEMS_TO_PROCESS > 0, no historical store filled yet
InitRepoll ==
    /\ historical_db = <<>>
    /\ InitLookupIdle
    /\ InitPoolAt("off")
    /\ db = <<>>
    /\ InitLiveAt("idle")
    /\ test_mode = FALSE
    /\ max_items > 0
    /\ InitInsertOff
    /\ InitJitOff
    /\ InitNotifyOff
    /\ req = <<>>
    /\ world \in CappedWorlds
    /\ delivered = {}
    /\ cmp = <<>>

\* every poll is followed by the next (main.py, lines 114-123), and run()
\* goes on from each of its steps
SpecRepoll == InitRepoll /\ [][NextRepoll]_vars /\ WF_vars(NextRepoll)

\* main.py alone: BSEScraper(test_mode=False), no historical store filled
InitNotifying ==
    /\ historical_db = <<>>
    /\ InitLookupIdle
    /\ InitPoolAt("off")
    /\ db = <<>>
    /\ InitLiveAt("idle")
    /\ test_mode = FALSE
    /\ InitRaceOff

\* a poll that is not killed goes on from each of its steps to the delivery
\* of its notifications (run_single_poll, lines 80-83); the kill may come at
\* any time, or never
SpecNotifying ==
    InitNotifying /\ [][NextNotifying]_vars /\ WF_vars(PollSteps)

InitComparing ==
    /\ historical_db = <<>>
    /\ InitLookupIdle
    /\ InitPoolAt("off")
    /\ db = <<>>
    /\ InitLiveAt("off")
    /\ InitInsertOff
    /\ InitJitOff
    /\ InitNotifyOff
    /\ req = <<>>
    /\ world = <<>>
    /\ delivered = {}
    /\ InitCompare

SpecCompare == InitComparing /\ [][NextCompare]_vars

(***************************************************************************)
(* The claims.                                                             *)
(***************************************************************************)
\* the sentinels main() has put so far in this cycle: those still queued
\* and those a worker has drawn
SentinelsPut ==
    Cardinality({i \in 1..Len(queue) : queue[i] = NoMoreWork})
        + Cardinality({w \in Workers : wpc[w] = "exited"})

\* C5 as stated: for one raising of the throttle flag at most one worker
\* pays the cool-down.
C5_SinglePayer == Cardinality(payers) <= 1

\* C5 amended: a worker begins a cool-down only at a check that finds the
\* flag set, and a check that finds it cleared sends the request without
\* a cool-down; every worker that checks before the first sleeper clears the
\* flag pays for the same raising.
C5_CoolDownIffFlagSeen ==
    [][\A w \in Workers :
          /\ (wpc'[w] = "cooldown" /\ wpc[w] # "cooldown") => throttle_event
          /\ (wpc'[w] = "request" /\ wpc[w] \notin {"cooldown", "request"})
                => ~throttle_event]_vars

\* two workers are in the cool-down of one raising
C5_Witness ==
    /\ Cardinality(payers) = 2
    /\ \A w \in payers : wpc[w] = "cooldown"

\* C7 as stated: the N sentinels are in the queue before main() waits for
\* the queue to drain.
C7_SentinelsBeforeJoin ==
    disp_pc = "join" => SentinelsPut = MAX_CONCURRENT_WORKERS

\* C7 amended: main() enqueues the items, waits for the queue to drain, and
\* only then puts the N sentinels; the cycle is complete only after every
\* worker has drawn its sentinel and ended.
C7_JoinBeforeSentinels ==
    /\ disp_pc = "join" => SentinelsPut = 0
    /\ disp_pc = "gather" =>
          /\ SentinelsPut = MAX_CONCURRENT_WORKERS
          /\ \A k \in 1..Len(acked) : acked[k] >= 1
    /\ disp_pc \in {"loop", "done"} =>
          /\ \A w \in Workers : wpc[w] \in {"none", "exited"}
          /\ queue = <<>>

\* a cycle of two items is complete
C7_Witness ==
    /\ disp_pc = "loop"
    /\ Len(items_to_process) = 2
    /\ \A w \in Workers : wpc[w] = "exited"

\* C8: under fair scheduling every pool cycle ends: each worker draws a
\* sentinel and ends, none is left waiting on the queue, no sentinel is left
\* over, and main()'s wait for the workers returns.
C8_PoolCycleTerminates ==
    (disp_pc = "join") ~>
        /\ disp_pc = "loop"
        /\ \A w \in Workers : wpc[w] = "exited"
        /\ queue = <<>>

\* the second cycle of a run is complete
C8_Witness ==
    /\ disp_pc = "loop"
    /\ chunk = 2
    /\ Len(historical_db) = 2
    /\ \A w \in Workers : wpc[w] = "exited"

\* C9: when queue.join() has returned, every item of the cycle has been
\* drawn by one worker, acknowledged once, and no worker is resolving or
\* storing.
C9_DrainBarrier ==
    disp_pc = "gather" =>
        /\ \A k \in 1..Len(items_to_process) : dequeued[k] = 1 /\ acked[k] = 1
        /\ \A w \in Workers : wpc[w] \in {"get", "exited"} /\ witem[w] = 0

\* the join of a cycle of two items has returned
C9_Witness ==
    /\ disp_pc = "gather"
    /\ Len(items_to_process) = 2
    /\ Len(historical_db) = 1

(***************************************************************************)
(* Claims on the live poll cycle, under SpecLive.                          *)
(***************************************************************************)
\* the rows a store holds under an id
RecordsOf(d, id) == {d[i] : i \in RowsOf(d, id)}

\* what the item pipeline of run() can do to a NEWSID in one step
ItemOps == {"resolve", "download", "insert", "summarize", "write"}

\* C1: once the live-store record of an id has status PROCESSED, no step of
\* any poll cycle resolves the id's attachment, downloads it, inserts,
\* summarizes or writes its record: the record stays as it is.
C1_ProcessedNeverRedone ==
    [][\A id \in LiveIds :
          StatusOf(db, id) = "PROCESSED"
             => /\ \A op \in ItemOps : <<id, op>> \notin ops'
                /\ RecordsOf(db', id) = RecordsOf(db, id)]_vars

\* C1: the second poll cycle meets h1, PROCESSED by the first, and skips it
C1_Witness ==
    /\ polls = 2
    /\ StatusOf(db, "h1") = "PROCESSED"
    /\ terminal_writes["h1"] = 0
    /\ <<"h1", "skip">> \in ops

\* C3: within one poll cycle at most one terminal write (update_summary with
\* PROCESSED or ERROR_PROCESSING) is made per id, also when the candidate
\* list holds the id more than once.
C3_OneTerminalWritePerCycle ==
    \A id \in LiveIds : terminal_writes[id] <= 1

\* C3: the list holds h1 twice; the first occurrence was written, the second
\* skipped
C3_Witness ==
    /\ announcements = <<"h1", "h1">>
    /\ terminal_writes["h1"] = 1
    /\ todo = <<>>
    /\ <<"h1", "skip">> \in ops

TerminalStatuses == {"PROCESSED", "ERROR_PROCESSING"}

\* C4: the status of a record only moves forward: a record never vanishes,
\* and once it is PROCESSED or ERROR_PROCESSING no step changes its status
\* or its payload (so it never returns to DOWNLOADED).
C4_StatusMonotonic ==
    [][\A id \in LiveIds :
          /\ RowsOf(db, id) # {} => RowsOf(db', id) # {}
          /\ Cardinality(RecordsOf(db', id)) <= 1
          /\ StatusOf(db, id) \in TerminalStatuses
                => RecordsOf(db', id) = RecordsOf(db, id)]_vars

\* C4: a cycle meets the ERROR_PROCESSING record of h1 again, and a record
\* of h2 has gone from DOWNLOADED to PROCESSED next to it
C4_Witness ==
    /\ StatusOf(db, "h1") = "ERROR_PROCESSING"
    /\ <<"h1", "skip">> \in ops
    /\ StatusOf(db, "h2") = "PROCESSED"

(***************************************************************************)
(* Claims on racing inserts, under SpecInsert.                             *)
(***************************************************************************)
Racing == {t \in Workers : tpc[t] # "off"}
RaceCall == targ[CHOOSE t \in Workers : tpc[t] # "off"]
RaceStore == IF RaceCall.store = "historical" THEN historical_db ELSE db
Created == {t \in Workers : tout[t] = "created"}
RaceOver == \A t \in Racing : tpc[t] = "returned"

\* the insert cannot reach or pass the historical store's constraints: the
\* date of the item does not parse, or the pdf_url is held by another row
RaceBlocked ==
    /\ RaceCall.store = "historical"
    /\ \/ RaceCall.item.DissemDT = InvalidDate
       \/ \E i \in 1..Len(historical_db) :
             /\ historical_db[i].news_id # RaceCall.item.NEWSID
             /\ historical_db[i].pdf_url = RaceCall.pdf_url

PoolParseFailure(w) ==
    /\ wpc[w] = "request"
    /\ wpc'[w] = "backoff"
    /\ exc'[w] = "XMLSyntaxError"

\* the step in which run()'s get_pdf_url_from_xbrl meets such a body
LiveParseFailure ==
    /\ xbrl' = "XMLSyntaxError"
    /\ \E id \in LiveIds : <<id, "resolve">> \in ops'

RowsBefore(h, e, t) ==
    {i \in 1..Len(h) : h[i].scrip_code = e /\ DayOf(h[i].announcement_date) < t}

\* what a lookup of (e, t) on store h may correctly return
LookupCorrect(h, e, t, result) ==
    IF RowsBefore(h, e, t) = {}
    THEN result = <<>>
    ELSE /\ Len(result) = 1
         /\ \E i \in 1..Len(h) : h[i] = result[1]
         /\ result[1].scrip_code = e
         /\ DayOf(result[1].announcement_date) < t
         /\ \A j \in RowsBefore(h, e, t) :
               DayOf(h[j].announcement_date)
                  <= DayOf(result[1].announcement_date)

PayloadOf(h, id) ==
    IF RowsOf(h, id) = {} THEN None
    ELSE h[CHOOSE i \in RowsOf(h, id) : TRUE].summary_json

\* the step is a call of _get_historical_summary_for_comparison that
\* selects the entry id
LookupSelects(id) ==
    /\ run_pc = "historical"
    /\ Len(jit') = 2
    /\ jit'[1] = id

JitOps == {"jit_download", "jit_fetched", "jit_summarize", "jit_write"}

\* the step does nothing to the entry: no download, summarizer call or write
JitIdle(id) ==
    /\ \A op \in JitOps : <<id, op>> \notin ops'
    /\ historical_db' = historical_db

\* C12: once a JIT summarization of an entry has succeeded and its summary is
\* in the entry, every later lookup that selects the entry returns the
\* cached summary, without a download and without a call of the summarizer.
C12_CachedSummaryReused ==
    [][\A id \in NewsIds :
          LookupSelects(id) /\ PayloadOf(historical_db, id) = "summary"
             => /\ jit'[2] = "cached_summary"
                /\ previous_summary' = "summary"
                /\ JitIdle(id)]_vars

\* C12: a lookup for h2 has returned the summary an earlier lookup's JIT
\* step wrote to h1
C12_Witness ==
    /\ jit = <<"h1", "cached_summary">>
    /\ previous_summary = "summary"
    /\ item = "h2"
    /\ PayloadOf(historical_db, "h1") = "summary"

\* C14: over any sequence of lookups and poll cycles the payload of a
\* historical entry is written at most once: an entry that holds a payload
\* is not written again and keeps it.
C14_PayloadWrittenOnce ==
    [][\A id \in NewsIds :
          PayloadOf(historical_db, id) # None
             => /\ <<id, "jit_write">> \notin ops'
                /\ RecordsOf(historical_db', id)
                      = RecordsOf(historical_db, id)]_vars

\* C14: the second poll cycle has looked up h1, whose payload an earlier
\* cycle's JIT step wrote
C14_Witness ==
    /\ polls = 2
    /\ Len(jit) = 2
    /\ jit[1] = "h1"
    /\ jit[2] \in {"cached_summary", "cached_other"}
    /\ StatusOf(db, "h2") \in {"PROCESSED", "ERROR_PROCESSING"}

\* C15: a lookup that selects an entry whose cached payload is not of kind
\* summary returns nothing, and downloads, summarizes and writes nothing.
C15_CachedOtherKindIgnored ==
    [][\A id \in NewsIds :
          /\ LookupSelects(id)
          /\ PayloadOf(historical_db, id) \notin {None, "summary"}
          => /\ jit'[2] = "cached_other"
             /\ previous_summary' = None
             /\ JitIdle(id)]_vars

\* C15: a lookup has met the error payload of h1 and returned nothing
C15_Witness ==
    /\ jit = <<"h1", "cached_other">>
    /\ PayloadOf(historical_db, "h1") = "error"
    /\ previous_summary = None
    /\ run_pc = "summarize"

C17_JitExceptionContained ==
    [][/\ (run_pc = "historical" /\ Len(jit') = 2 /\ jit'[2] = "exception")
             => /\ run_pc' = "summarize"
                /\ previous_summary' = None
                /\ item' = item
       /\ (run_pc = "summarize" /\ run_pc' = "next"
              /\ Len(jit) = 2 /\ jit[2] = "exception")
             => /\ <<item, "summarize">> \in ops'
                /\ <<item, "write">> \in ops'
                /\ StatusOf(db', item) \in {"PROCESSED", "ERROR_PROCESSING"}]_vars

\* C17: the JIT step for h1 raised, and h2 was summarized and written
C17_Witness ==
    /\ jit = <<"h1", "exception">>
    /\ <<"h2", "write">> \in ops
    /\ StatusOf(db, "h2") = "PROCESSED"

C11_TieBreakDeterministic ==
    \A e \in Scrips, t \in Days :
        Cardinality(get_latest_announcement_for_scrip(
                        historical_db, e, strftime(t))) <= 1

(***************************************************************************)
(* Claim on two lookups at once, under SpecJit.                            *)
(***************************************************************************)
\* the callers that invoked the summarizer for the entry id
SummarizerCallers(id) == {c \in jit_calls : jprev[c] = id}

\* the callers that wrote a payload into the entry id
PayloadWriters(id) == {c \in jit_writes : jprev[c] = id}

\* C13: of two callers that run the JIT path at once for the same entry
\* without a cached payload, at most one invokes the summarizer for the
\* entry and the entry receives at most one write.
C13_SummarizedOnce ==
    \A id \in NewsIds :
        /\ Cardinality(SummarizerCallers(id)) <= 1
        /\ Cardinality(PayloadWriters(id)) <= 1

(***************************************************************************)
(* Claims on the notification sequencer, under SpecNotify.                 *)
(***************************************************************************)
\* the k-th thing a sequencer does when no action raises: start i, done i
\* and, between two actions, sleep
ScheduleAt(k) ==
    LET i == (k + 2) \div 3
        r == (k - 1) % 3
    IN  <<(CASE r = 0 -> "start" [] r = 1 -> "done" [] OTHER -> "sleep"), i>>

\* what the sequencer does in all for n actions no one of which raises
ScheduleLen(n) == IF n = 0 THEN 0 ELSE 3 * n - 1

\* C19: the delivery actions run in list order, action i+1 is started only
\* after action i has completed and the sleep between them is over, there
\* is one sleep between two consecutive deliveries (n-1 in all, none for
\* n <= 1) and none after the last: what the sequencer has done is always
\* a prefix of start 1, done 1, sleep, start 2, ..., start n, done n (its
\* last action may have raised instead of completing), and all of it once
\* it has returned.
C19_InOrderWithGaps ==
    /\ Len(events) <= ScheduleLen(Len(tasks))
    /\ \A k \in 1..Len(events) :
          \/ events[k] = ScheduleAt(k)
          \/ /\ k = Len(events)
             /\ events[k] = <<"raised", ScheduleAt(k)[2]>>
             /\ ScheduleAt(k)[1] = "done"
    /\ npc = "returned" => Len(events) = ScheduleLen(Len(tasks))

\* the sequencer has returned from a list of several actions
C19_Witness ==
    /\ npc = "returned"
    /\ Len(tasks) >= 2
    /\ \E k \in 1..Len(events) : events[k][1] = "sleep"

\* the things of a kind the sequencer has done
Done(what) == {events[k][2] : k \in {j \in 1..Len(events) : events[j][1] = what}}

\* C20: once the sequencer is over, every action after one that raised has
\* been started all the same.
C20_LaterActionsRun ==
    npc \in {"returned", "raised"} =>
        \A i \in Done("raised"), j \in 1..Len(tasks) :
            j > i => j \in Done("start")

(***************************************************************************)
(* Claims on what a poll cycle leaves of an item, under SpecLive.          *)
(***************************************************************************)
\* the step ends the examination of a new item: it was resolved, and
\* downloaded if a URL came back, and run() goes on from line 505
NewItemExamined ==
    /\ run_pc = "prepare"
    /\ ops # {}
    /\ run_pc' \in {"next", "historical"}

\* the step is a call of process_and_summarize that writes the item's record
SummaryWritten ==
    /\ run_pc = "summarize"
    /\ run_pc' = "next"
    /\ terminal_writes'[item] = terminal_writes[item] + 1

\* C23: an item whose resolution came back well-formed but without an
\* attachment is terminal: when the cycle is through with it, its record
\* exists and has a terminal status.
C23_NotFoundIsTerminal ==
    [][(NewItemExamined /\ xbrl = "no_attachment")
          => StatusOf(db', item) \in TerminalStatuses]_vars

SingleItemSummarized(id) ==
    /\ run_pc = "next"
    /\ announcements = <<id>>
    /\ todo = <<>>
    /\ terminal_writes[id] = 1
    /\ PayloadOf(db, id) = "summary"

\* C26: a text whose summarization succeeds gives a payload of kind
\* summary, and a cycle over a single item that it downloaded and so
\* summarized returns exactly one notification, of kind summary, and leaves
\* the record PROCESSED.
C26_SingleItemEndToEnd ==
    /\ summarize("text", "summary") = "summary"
    /\ \A id \in LiveIds :
          SingleItemSummarized(id) =>
              /\ notification_tasks = <<[news_id |-> id, notify |-> "summary"]>>
              /\ StatusOf(db, id) = "PROCESSED"

\* the single item was new, and its entity had no earlier announcement
C26_Witness ==
    /\ SingleItemSummarized("h1")
    /\ new_items_processed = 1
    /\ jit = <<None, "no_prev">>

\* C27: content with web links only gives a payload of kind web_link; a
\* record written with it is PROCESSED and the notification enqueued is the
\* one with context exactly when the historical lookup returned a summary,
\* else the plain web-link notification.
C27_WebLinkNotification ==
    [][/\ \A llm \in SummaryKinds :
             SummaryData(summarize("web_link_only", llm)) = "web_link"
       /\ (SummaryWritten /\ PayloadOf(db', item) = "web_link") =>
             /\ StatusOf(db', item) = "PROCESSED"
             /\ notification_tasks' =
                   Append(notification_tasks,
                          [news_id |-> item,
                           notify |-> IF previous_summary # None
                                      THEN "weblink_with_context"
                                      ELSE "weblink"])]_vars

\* a web-link item was notified with the earlier summary of its entity
C27_Witness ==
    /\ run_pc = "next"
    /\ PayloadOf(db, "h2") = "web_link"
    /\ Len(notification_tasks) > 0
    /\ notification_tasks[Len(notification_tasks)] =
          [news_id |-> "h2", notify |-> "weblink_with_context"]

\* C28: every write of process_and_summarize leaves a payload; the record
\* is ERROR_PROCESSING exactly when the payload is an error (the summarizer
\* returned none, or one of kind error), and then exactly one notification,
\* of kind error, is enqueued for the item.
C28_FailureRecordedAndNotified ==
    [][SummaryWritten =>
          /\ PayloadOf(db', item) # None
          /\ StatusOf(db', item) = "ERROR_PROCESSING"
                <=> PayloadOf(db', item) = "error"
          /\ PayloadOf(db', item) = "error" =>
                notification_tasks' =
                    Append(notification_tasks,
                           [news_id |-> item, notify |-> "error"])]_vars

\* a failed summarization is in the store and in the notification list
C28_Witness ==
    /\ run_pc = "next"
    /\ \E id \in LiveIds :
          /\ StatusOf(db, id) = "ERROR_PROCESSING"
          /\ terminal_writes[id] = 1
          /\ notification_tasks = <<[news_id |-> id, notify |-> "error"]>>

\* C29: when the write of an item's result fails, the cycle goes on: the
\* item's notification is enqueued and run() takes the next candidate.
C29_WriteFailureContained ==
    [][(<<item, "write_failed">> \in ops') =>
          /\ run_pc' = "next"
          /\ notification_tasks' # <<>>]_vars

(***************************************************************************)
(* Claim on failures inside a worker of the pool, under SpecPoolErr.       *)
(***************************************************************************)
\* C30: a failure while a worker processes an item does not keep the item
\* from being acknowledged: a worker whose task has ended on an error has
\* called task_done for the item it held.
C30_FailedItemAcknowledged ==
    \A w \in Workers : wpc[w] = "failed" => acked[witem[w]] = 1

(***************************************************************************)
(* Claims on the request helpers, under SpecRetry.                         *)
(***************************************************************************)
\* C21: _make_resilient_request never raises to its caller, whatever the
\* request fails with.
C21_NeverRaises ==
    req.fn = "_make_resilient_request" => req.pc # "raised"

\* C22: in either helper the k-th wait of a call is backoff_factor *
\* 2^(k-1), each wait twice the one before; a wait is taken only when
\* another attempt follows: never more than retries - 1, and a call that
\* returns with every attempt failed has made `retries` requests and
\* slept retries - 1 times.
C22_BackoffDoubles ==
    /\ Len(req.waits) <= req.retries - 1
    /\ \A k \in 1..Len(req.waits) :
          /\ req.waits[k] = req.backoff_factor * 2^(k - 1)
          /\ k > 1 => req.waits[k] = 2 * req.waits[k - 1]
    /\ req.pc = "sleep" => Len(req.waits) = req.attempt + 1
    /\ (req.pc = "returned" /\ req.result = None) =>
          /\ req.requests = req.retries
          /\ Len(req.waits) = req.retries - 1

\* a call with the default of five attempts has failed five times
C22_Witness ==
    /\ req.pc = "returned"
    /\ req.result = None
    /\ req.retries = RESILIENT_RETRIES
    /\ Len(req.waits) = 4

(***************************************************************************)
(* Claim on a poll repeated against unchanged services, under SpecRerun.   *)
(***************************************************************************)
\* the step belongs to a run that is not the first, and leaves the store
\* and the notification list of the run as they are
LaterRunIdle ==
    polls >= 2 => (db' = db /\ notification_tasks' = <<>>)

\* C24 as stated: whatever the configuration, a run after the first on the
\* same candidate list adds no record, changes no record and collects no
\* notification.
C24_SecondRunIdleAnyCap == [][LaterRunIdle]_vars

\* C24, amended: without a cap on the new items of a cycle (max_items = 0),
\* a run after the first on the same candidate list adds no record, changes
\* no record and collects no notification.
C24_SecondRunIdle == [][max_items = 0 => LaterRunIdle]_vars

\* a second run without a cap has skipped an item the first one processed
C24_Witness ==
    /\ polls = 2
    /\ max_items = 0
    /\ run_pc = "next"
    /\ \E id \in LiveIds :
          /\ <<id, "skip">> \in ops
          /\ StatusOf(db, id) \in TerminalStatuses

(***************************************************************************)
(* Claims on the throttle protocol of the backfill pool, under SpecPool.   *)
(***************************************************************************)
\* the step takes worker w to the head of an attempt: from queue.get(), from
\* the wait after a failed attempt, from the store write, or from a response
\* that ended its item (which that step acknowledges)
AttemptEntered(w) ==
    /\ wpc'[w] \in {"cooldown", "request"}
    /\ \/ wpc[w] \in {"get", "backoff", "save"}
       \/ /\ wpc[w] = "request"
          /\ acked'[witem[w]] # acked[witem[w]]

\* C33: the throttle flag is cleared only by a worker that ends a cool-down
\* sleep, which it began at the head of an attempt that found the flag set;
\* and a worker that finds the flag set at the head of an attempt sleeps
\* before it sends its request.
C33_ClearedOnlyAfterCoolDown ==
    [][/\ (throttle_event /\ ~throttle_event') =>
              \E w \in Workers : wpc[w] = "cooldown" /\ wpc'[w] = "request"
       /\ \A w \in Workers :
              /\ (wpc'[w] = "cooldown" /\ wpc[w] # "cooldown") =>
                     throttle_event /\ AttemptEntered(w)
              /\ (AttemptEntered(w) /\ throttle_event) => wpc'[w] = "cooldown"
              /\ (wpc[w] = "cooldown" /\ wpc'[w] # "cooldown") =>
                     wpc'[w] = "request" /\ ~throttle_event']_vars

\* a worker has slept its cool-down, cleared the flag and sent its request
\* while another one waits after a failed attempt
C33_Witness ==
    /\ ~throttle_event
    /\ \E w \in payers : wpc[w] = "request" /\ attempt[w] > 0
    /\ \E w \in Workers : wpc[w] = "backoff"

\* C38: no raising of the throttle flag is lost: when the flag is cleared,
\* a cool-down that began after its last raising has ended or is under way.
\* (payers holds the workers that began a cool-down since the last raising:
\* a clearing that finds it empty wipes a raising no sleep has answered.)
C38_SignalNeverLost ==
    [][(throttle_event /\ ~throttle_event') => payers # {}]_vars

(***************************************************************************)
(* Further claims on the live store and the JIT step, under SpecLive.      *)
(***************************************************************************)
\* C34: in every state of the live store status and payload agree: a record
\* is DOWNLOADED exactly when it has no payload, ERROR_PROCESSING exactly
\* when its payload is of kind error, PROCESSED exactly when it has a payload
\* of another kind.
C34_StatusAgreesWithPayload ==
    \A i \in 1..Len(db) :
        /\ db[i].status \in {"DOWNLOADED", "PROCESSED", "ERROR_PROCESSING"}
        /\ db[i].status = "DOWNLOADED" <=> db[i].summary_json = None
        /\ db[i].status = "ERROR_PROCESSING" <=> db[i].summary_json = "error"
        /\ db[i].status = "PROCESSED" <=>
              db[i].summary_json \notin {None, "error"}

\* the store holds a failed record and, beside it, one whose summarization
\* is about to be written
C34_Witness ==
    /\ \E i \in 1..Len(db) : db[i].status = "ERROR_PROCESSING"
    /\ run_pc = "summarize"
    /\ StatusOf(db, item) = "DOWNLOADED"

\* the ways out of the JIT step that return no summary and record no web link
JitFailures == {"not_downloaded", "exception", "failed"}

\* the step is a lookup that selects the entry id, runs the JIT step and
\* leaves it in one of the ways of JitFailures
JitFails(id) ==
    /\ LookupSelects(id)
    /\ jit'[2] \in JitFailures

C36_OneDeliveryPerTerminalWrite ==
    [][/\ SummaryWritten =>
              /\ Len(notification_tasks') = Len(notification_tasks) + 1
              /\ notification_tasks'[Len(notification_tasks')].news_id = item
              /\ SubSeq(notification_tasks', 1, Len(notification_tasks))
                    = notification_tasks
       /\ Len(notification_tasks') > Len(notification_tasks) =>
              SummaryWritten]_vars

\* C32: with a cap max_items = M > 0 one poll cycle tries to resolve or
\* download at most M items that had no record when it reached them, and
\* inserts at most M records.  (Without a cap, M = 0, the cycle takes every
\* new item of its list.)
C32_CapBoundsNewItems ==
    max_items > 0 =>
        /\ tally.attempted <= max_items
        /\ tally.inserted <= max_items
        /\ tally.inserted <= tally.attempted

\* the cap is reached with a new item still on the list: M records inserted,
\* the loop about to break
C32_Witness ==
    /\ max_items > 0
    /\ tally.attempted = max_items
    /\ tally.inserted = max_items
    /\ run_pc = "next"
    /\ todo # <<>>
    /\ Head(todo) # NoNewsId
    /\ ~is_processed(db, Head(todo))

(***************************************************************************)
(* Claims on the poll cycles after a restart, under SpecResume.            *)
(***************************************************************************)
\* the ids a sequence of candidates holds
IdsOf(q) == {q[k] : k \in 1..Len(q)}

\* the record of id is DOWNLOADED and its file is in downloads/
Resumable(id) == StatusOf(db, id) = "DOWNLOADED" /\ id \in files

\* the step is the end of run()'s loop: the list is through, or the cap
\* broke the loop
LoopEnds == run_pc = "next" /\ run_pc' = "idle"

\* the step takes up an item whose record is DOWNLOADED
TakenUpAgain ==
    /\ run_pc = "next"
    /\ item' # None
    /\ StatusOf(db, item') = "DOWNLOADED"

Obtainable(id) ==
    /\ id \in IdsOf(world.list)
    /\ world.xbrl[id] = "url"
    /\ world.download[id]

\* C37: with a cap and polls repeated over the same list, every candidate
\* whose attachment resolves and downloads is summarized in the end, whatever
\* becomes of the other candidates.
C37_ObtainableSummarized ==
    \A id \in LiveIds :
        (max_items > 0 /\ Obtainable(id)) ~>
            (StatusOf(db, id) \in {"PROCESSED", "ERROR_PROCESSING"})

(***************************************************************************)
(* Claims on the delivery of notifications, under SpecNotifying.           *)
(***************************************************************************)
\* the record of id has a terminal status and a payload of a kind that
\* process_and_summarize returns a delivery action for
ToBeDelivered(id) ==
    /\ StatusOf(db, id) \in {"PROCESSED", "ERROR_PROCESSING"}
    /\ \A i \in RowsOf(db, id) :
          db[i].summary_json \in {"summary", "web_link", "error"}

\* C31: delivery is at least once: every item whose record reaches a
\* terminal status is delivered to the notification channel in the end, also
\* when the process is killed and restarted between the write of the record
\* and the delivery (and is not killed again and again for ever).
C31_DeliveredAtLeastOnce ==
    \A id \in LiveIds :
        \/ []<><<Crash>>_vars
        \/ ToBeDelivered(id) ~> (id \in delivered)

(***************************************************************************)
(* Claims on the comparison lookup's return value, under SpecCompare.      *)
(***************************************************************************)
\* C39: a lookup that hits the cache returns the same (summary, context)
\* pair as the JIT call that filled the entry returned, the links of the
\* context included.
C39_CachedPairAsReturned ==
    \A k \in 1..Len(cmp.returns) :
        (cmp.jit # 0 /\ k > cmp.jit) => cmp.returns[k] = cmp.returns[cmp.jit]

=========================================================================
